---- MODULE Spec2Model ----
(***************************************************************************)
(* Model of the data-shaping core of binmave-cli: the tree navigator       *)
(* (components.TreeView), the aggregator (collectPaths and                 *)
(* buildAggregatedNodes), the baseline differ (CompareModel), the          *)
(* structure detector (hasSelfReferentialFields) and the results model     *)
(* (ResultsModel) with its polling of the server.                          *)
(*                                                                         *)
(* Strings that the code concatenates, splits or prefix-matches are        *)
(* sequences of tokens.  The characters the code treats specially ("/",    *)
(* "=", "[", "]", ",", " ") are tokens of their own; every other token     *)
(* stands for a maximal run of ordinary characters.  String concatenation  *)
(* is \o.                                                                  *)
(***************************************************************************)
EXTENDS Integers, Sequences, FiniteSets, TLC

VARIABLES
    \* components.TreeView
    agents, flatNodes, selectedIdx, viewportStart, viewportHeight,
    \* the aggregator: its inputs, the path map, the tree built from it
    aggTrees, pathCounts, aggregateTree, aggTotal, aggAnomaliesOnly, aggPc,
    \* CompareModel: the two fetches in flight and the model's fields
    baselineFetch, currentFetch, baselineResults, currentResults, diffs,
    newCount, removedCount, modifiedCount, loading, showDiffsOnly,
    cmpSelectedIdx, cmpScrollOffset, cmpErr, dataReady,
    \* the structure detector: the array it examines and its answer
    detRows, detResult, detPc,
    \* ResultsModel: its fields and those of its view mode bar
    rmViewMode, rmIsTreeData, rmCurrentTab, rmShowAnomaliesOnly, rmResults,
    rmErrors, rmAgentTrees, rmAggregateTree, rmTableRows, rmTableSelectedIdx,
    rmTableScrollOffset, barActiveIdx, barTreeEnabled,
    rmStatus, rmLoading, rmErr,
    \* the commands ResultsModel has issued that have not completed yet, the
    \* number issued so far, and the server they ask
    rmInFlight, rmIssued, srvState, srvResults,
    \* history: the number of the results fetch whose answer rmResults holds
    \* (0 before the first); the program keeps no such field
    rmShownFetch,
    \* ResultsModel: the detail view of a table row
    rmShowingDetail, rmDetailContent,
    \* the watch command: its position, its variable lastReceived, the
    \* outcome of its last status fetch, what it has printed, the signal
    \* channel, the ticks it has served and the execution on the server
    watchPc, lastReceived, watchFetched, watchDrawn, watchSummaries, sigChan,
    watchTicks, watchSrvState, watchSrvReceived,
    \* Client.GetAllExecutionResults: its position, its variables page and
    \* allResults, what it returns, the requests it has made and the number
    \* of results the server holds
    pagePc, page, allResults, pageReturn, pageRequests, pageTotal

treeVars == <<agents, flatNodes, selectedIdx, viewportStart, viewportHeight>>
aggVars == <<aggTrees, pathCounts, aggregateTree, aggTotal, aggAnomaliesOnly, aggPc>>
cmpVars == <<baselineFetch, currentFetch, baselineResults, currentResults, diffs,
             newCount, removedCount, modifiedCount, loading, showDiffsOnly,
             cmpSelectedIdx, cmpScrollOffset, cmpErr, dataReady>>
detVars == <<detRows, detResult, detPc>>
rmViewVars == <<rmViewMode, rmIsTreeData, rmCurrentTab, rmShowAnomaliesOnly, rmResults,
                rmErrors, rmAgentTrees, rmAggregateTree, rmTableRows,
                rmTableSelectedIdx, rmTableScrollOffset, barActiveIdx, barTreeEnabled>>
rmPollVars == <<rmStatus, rmLoading, rmErr, rmInFlight, rmIssued, rmShownFetch>>
srvVars == <<srvState, srvResults>>
rmVars == <<rmViewVars, rmPollVars, srvVars>>
rmDetailVars == <<rmShowingDetail, rmDetailContent>>
watchVars == <<watchPc, lastReceived, watchFetched, watchDrawn, watchSummaries, sigChan,
               watchTicks, watchSrvState, watchSrvReceived>>
pageVars == <<pagePc, page, allResults, pageReturn, pageRequests, pageTotal>>
cliVars == <<rmDetailVars, watchVars, pageVars>>
vars == <<treeVars, aggVars, cmpVars, detVars, rmVars, cliVars>>

(***************************************************************************)
(* Bounds                                                                  *)
(***************************************************************************)
MaxAgents == 2      \* agent trees handed to one SetAgents call
MaxNodes == 3       \* tree nodes in one SetAgents call, over all agents
MaxHeight == 2      \* largest viewport height passed to SetViewportHeight
MaxAggAgents == 2   \* agent trees in one enumerated aggregation input
MaxAggNodes == 3    \* tree nodes in one enumerated aggregation input, over all agents
MaxCmpAgents == 2   \* results in one enumerated result collection
MaxJsonSize == 4    \* JSON values in one enumerated pair of result collections
MaxDetRows == 5     \* rows of one array handed to the structure detector
MaxFetches == 7     \* commands one run of the results model issues
MaxWatchTicks == 4    \* ticks the watch command serves
MaxReceived == 2      \* results the watched execution receives
MaxServerResults == 250   \* results of the execution fetched page by page
MaxPollResults == 1 \* results the agents report to the server in one run

(***************************************************************************)
(* Generic helpers                                                         *)
(***************************************************************************)
Range(s) == {s[i] : i \in DOMAIN s}

RECURSIVE Concat(_)
Concat(ss) == IF ss = <<>> THEN <<>> ELSE Head(ss) \o Concat(Tail(ss))

\* strings.HasPrefix, strings.TrimPrefix and strings.Contains(s, "/")
HasPrefix(s, prefix) ==
    Len(prefix) <= Len(s) /\ SubSeq(s, 1, Len(prefix)) = prefix
TrimPrefix(s, prefix) ==
    IF HasPrefix(s, prefix) THEN SubSeq(s, Len(prefix) + 1, Len(s)) ELSE s
ContainsSlash(s) == \E i \in DOMAIN s : s[i] = "/"

RECURSIVE Perms(_)
\* every sequence that lists each element of S once
Perms(S) ==
    IF S = {} THEN {<<>>}
    ELSE UNION { { <<x>> \o q : q \in Perms(S \ {x}) } : x \in S }

PosIn(seq, x) == CHOOSE i \in DOMAIN seq : seq[i] = x

(***************************************************************************)
(* Trees.  A TreeNode is a record with Label, Children (a sequence of      *)
(* TreeNode) and Expanded; aggregated nodes carry Count, TotalCount,       *)
(* AgentNames and IsAnomaly as well.  A pointer to a node is the pair of   *)
(* the agent's index and the sequence of child indices leading to it.      *)
(***************************************************************************)
RECURSIVE ForestSet(_, _)
\* every ordered forest of exactly n collapsed nodes labelled from labels
ForestSet(n, labels) ==
    IF n = 0 THEN {<<>>}
    ELSE UNION { { <<[Label |-> l, Children |-> c, Expanded |-> FALSE]>> \o r :
                     l \in labels, c \in ForestSet(k - 1, labels),
                     r \in ForestSet(n - k, labels) } : k \in 1..n }

RECURSIVE CountNodes(_)
CountNodes(nodes) ==
    IF nodes = <<>> THEN 0
    ELSE 1 + CountNodes(Head(nodes).Children) + CountNodes(Tail(nodes))

RECURSIVE NodeAt(_, _)
\* the node reached from the sibling list nodes by the child indices p
NodeAt(nodes, p) ==
    IF Len(p) = 1 THEN nodes[p[1]]
    ELSE NodeAt(nodes[p[1]].Children, Tail(p))

RECURSIVE SetExpandedAt(_, _, _)
\* the sibling list with the Expanded flag of the node at p set to val
SetExpandedAt(nodes, p, val) ==
    IF Len(p) = 1
    THEN [nodes EXCEPT ![p[1]].Expanded = val]
    ELSE [nodes EXCEPT ![p[1]].Children = SetExpandedAt(@, Tail(p), val)]

RECURSIVE SetAllNodes(_, _)
SetAllNodes(nodes, val) ==
    [i \in DOMAIN nodes |->
        [nodes[i] EXCEPT !.Expanded = val,
                         !.Children = SetAllNodes(@, val)]]

\* expandAllNodes that does not descend into the children
expandAllNodes_RootsOnly(nodes) ==
    [i \in DOMAIN nodes |-> [nodes[i] EXCEPT !.Expanded = TRUE]]

expandAllNodes(nodes) == SetAllNodes(nodes, TRUE)
collapseAllNodes(nodes) == SetAllNodes(nodes, FALSE)

(***************************************************************************)
(* TreeView                                                                *)
(***************************************************************************)
DefaultViewportHeight == 20

RECURSIVE flattenNode(_, _, _, _, _, _)
RECURSIVE flattenChildren(_, _, _, _, _, _)
\* flattenNode that walks the children of a collapsed node too
flattenNode_IgnoreExpanded(node, ptr, agent, indent, isLast, parentPath) ==
    LET path == Append(parentPath, isLast)
        row == [node |-> ptr, agent |-> agent, isAgent |-> FALSE,
                indent |-> indent, isLastNode |-> isLast, parentPath |-> path]
    IN  <<row>> \o flattenChildren(node.Children, ptr, agent, indent + 1, path, 1)

flattenNode(node, ptr, agent, indent, isLast, parentPath) ==
    LET path == Append(parentPath, isLast)
        row == [node |-> ptr, agent |-> agent, isAgent |-> FALSE,
                indent |-> indent, isLastNode |-> isLast, parentPath |-> path]
    IN  <<row>> \o
        (IF node.Expanded
         THEN flattenChildren(node.Children, ptr, agent, indent + 1, path, 1)
         ELSE <<>>)

\* the loop over node.Children (and over agent.Roots, with ptr = <<>>), from index i
flattenChildren(children, ptr, agent, indent, path, i) ==
    IF i > Len(children) THEN <<>>
    ELSE flattenNode(children[i], Append(ptr, i), agent, indent,
                     i = Len(children), path)
         \o flattenChildren(children, ptr, agent, indent, path, i + 1)

RECURSIVE flattenAgents(_, _)
flattenAgents(ags, i) ==
    IF i > Len(ags) THEN <<>>
    ELSE <<[node |-> <<>>, agent |-> i, isAgent |-> TRUE,
            indent |-> 0, isLastNode |-> FALSE, parentPath |-> <<>>]>>
         \o (IF ags[i].Expanded
             THEN flattenChildren(ags[i].Roots, <<>>, i, 1, <<>>, 1)
             ELSE <<>>)
         \o flattenAgents(ags, i + 1)

\* rebuildFlatList without its "ensure selection is valid" step
ClampSelection_None(sel, n) == sel

ClampSelection(sel, n) ==
    LET s1 == IF sel >= n THEN n - 1 ELSE sel
    IN  IF s1 < 0 THEN 0 ELSE s1

\* rebuildFlatList that puts the cursor back on the first row
rebuildFlatList_CursorToTop(ags, sel) ==
    [flatNodes |-> flattenAgents(ags, 1), selectedIdx |-> 0]

\* rebuildFlatList: the new flat list and the re-clamped selection
rebuildFlatList(ags, sel) ==
    LET flat == flattenAgents(ags, 1)
    IN  [flatNodes |-> flat, selectedIdx |-> ClampSelection(sel, Len(flat))]

ensureSelectedVisible(sel, vstart, vheight) ==
    LET v1 == IF sel < vstart THEN sel ELSE vstart
    IN  IF sel >= v1 + vheight THEN sel - vheight + 1 ELSE v1

Digits == <<"0", "1", "2", "3", "4", "5", "6", "7", "8", "9">>
RECURSIVE IntToStr(_)
\* "%d" of a number that is not negative
IntToStr(i) ==
    IF i < 10 THEN Digits[i + 1] ELSE IntToStr(i \div 10) \o Digits[(i % 10) + 1]

AgentNameOf(i) == "agent" \o IntToStr(i)

RECURSIVE AgentSeqs(_, _, _, _)
\* every sequence of exactly k agent trees holding at most n nodes in all,
\* labelled from labels, with header flags from flags
AgentSeqs(k, n, labels, flags) ==
    IF k = 0 THEN {<<>>}
    ELSE UNION { { rest \o <<[AgentName |-> AgentNameOf(k), Roots |-> f,
                              NodeCount |-> m, Expanded |-> e]>> :
                     f \in ForestSet(m, labels), e \in flags,
                     rest \in AgentSeqs(k - 1, n - m, labels, flags) } : m \in 0..n }

\* what the results model hands to SetAgents: per-agent trees, all collapsed
\* (rebuildTreeFromResults, rebuildTreeFromErrors), or the single pre-expanded
\* aggregated tree (rebuildAggregatedTree)
AgentInputs ==
    UNION { AgentSeqs(k, MaxNodes, {<<"n">>}, {FALSE}) : k \in 0..MaxAgents }
    \cup AgentSeqs(1, MaxNodes, {<<"n">>}, {TRUE})

TreeInit ==
    /\ agents = <<>>
    /\ flatNodes = <<>>
    /\ selectedIdx = 0
    /\ viewportStart = 0
    /\ viewportHeight = DefaultViewportHeight

Rebuild(ags) ==
    LET r == rebuildFlatList(ags, selectedIdx)
    IN  /\ agents' = ags
        /\ flatNodes' = r.flatNodes
        /\ selectedIdx' = r.selectedIdx

SetAgents ==
    \E a \in AgentInputs :
        /\ Rebuild(a)
        /\ UNCHANGED <<viewportStart, viewportHeight>>

SetViewportHeight ==
    \E h \in 1..MaxHeight :
        /\ viewportHeight' = h
        /\ viewportStart' = ensureSelectedVisible(selectedIdx, viewportStart, h)
        /\ UNCHANGED <<agents, flatNodes, selectedIdx>>

MoveUp ==
    /\ IF selectedIdx > 0
       THEN /\ selectedIdx' = selectedIdx - 1
            /\ viewportStart' = ensureSelectedVisible(selectedIdx - 1, viewportStart,
                                                      viewportHeight)
       ELSE UNCHANGED <<selectedIdx, viewportStart>>
    /\ UNCHANGED <<agents, flatNodes, viewportHeight>>

\* MoveDown whose bound is the length of the list, not its last index
MoveDown_UpToLength ==
    /\ IF selectedIdx < Len(flatNodes)
       THEN /\ selectedIdx' = selectedIdx + 1
            /\ viewportStart' = ensureSelectedVisible(selectedIdx + 1, viewportStart,
                                                      viewportHeight)
       ELSE UNCHANGED <<selectedIdx, viewportStart>>
    /\ UNCHANGED <<agents, flatNodes, viewportHeight>>

MoveDown ==
    /\ IF selectedIdx < Len(flatNodes) - 1
       THEN /\ selectedIdx' = selectedIdx + 1
            /\ viewportStart' = ensureSelectedVisible(selectedIdx + 1, viewportStart,
                                                      viewportHeight)
       ELSE UNCHANGED <<selectedIdx, viewportStart>>
    /\ UNCHANGED <<agents, flatNodes, viewportHeight>>

\* flatNodes[selectedIdx] of the code (0-based) is flatNodes[selectedIdx + 1] here
Selected == flatNodes[selectedIdx + 1]
SelectedNode == NodeAt(agents[Selected.agent].Roots, Selected.node)

WithAgentExpanded(a, val) == [agents EXCEPT ![a].Expanded = val]
WithNodeExpanded(a, p, val) ==
    [agents EXCEPT ![a].Roots = SetExpandedAt(@, p, val)]

Toggle ==
    /\ IF selectedIdx >= Len(flatNodes)
       THEN UNCHANGED <<agents, flatNodes, selectedIdx>>
       ELSE IF Selected.isAgent
            THEN Rebuild(WithAgentExpanded(Selected.agent,
                                           ~agents[Selected.agent].Expanded))
            ELSE IF Len(SelectedNode.Children) > 0
                 THEN Rebuild(WithNodeExpanded(Selected.agent, Selected.node,
                                               ~SelectedNode.Expanded))
                 ELSE Rebuild(agents)
    /\ UNCHANGED <<viewportStart, viewportHeight>>

Expand ==
    /\ IF selectedIdx >= Len(flatNodes)
       THEN UNCHANGED <<agents, flatNodes, selectedIdx>>
       ELSE IF Selected.isAgent /\ ~agents[Selected.agent].Expanded
            THEN Rebuild(WithAgentExpanded(Selected.agent, TRUE))
            ELSE IF /\ ~Selected.isAgent
                    /\ Len(SelectedNode.Children) > 0
                    /\ ~SelectedNode.Expanded
                 THEN Rebuild(WithNodeExpanded(Selected.agent, Selected.node, TRUE))
                 ELSE UNCHANGED <<agents, flatNodes, selectedIdx>>
    /\ UNCHANGED <<viewportStart, viewportHeight>>

\* Collapse that flips the flag instead
Collapse_AsToggle == Toggle

Collapse ==
    /\ IF selectedIdx >= Len(flatNodes)
       THEN UNCHANGED <<agents, flatNodes, selectedIdx>>
       ELSE IF Selected.isAgent /\ agents[Selected.agent].Expanded
            THEN Rebuild(WithAgentExpanded(Selected.agent, FALSE))
            ELSE IF ~Selected.isAgent /\ SelectedNode.Expanded
                 THEN Rebuild(WithNodeExpanded(Selected.agent, Selected.node, FALSE))
                 ELSE UNCHANGED <<agents, flatNodes, selectedIdx>>
    /\ UNCHANGED <<viewportStart, viewportHeight>>

ExpandAll ==
    /\ Rebuild([i \in DOMAIN agents |->
                  [agents[i] EXCEPT !.Expanded = TRUE,
                                    !.Roots = expandAllNodes(@)]])
    /\ UNCHANGED <<viewportStart, viewportHeight>>

CollapseAll ==
    /\ Rebuild([i \in DOMAIN agents |->
                  [agents[i] EXCEPT !.Expanded = FALSE,
                                    !.Roots = collapseAllNodes(@)]])
    /\ UNCHANGED <<viewportStart, viewportHeight>>

(***************************************************************************)
(* Aggregator                                                              *)
(***************************************************************************)
RECURSIVE collectPaths(_, _, _, _)
\* collectPaths that counts an agent once per path
collectPaths_OncePerAgent(nodes, prefix, agentName, paths) ==
    IF nodes = <<>> THEN paths
    ELSE
      LET node == Head(nodes)
          path == prefix \o <<"/">> \o node.Label
          p0 == IF path \in DOMAIN paths
                THEN paths
                ELSE paths @@ (path :> [label |-> node.Label, count |-> 0,
                                        agentNames |-> <<>>])
          p1 == IF agentName \in Range(p0[path].agentNames)
                THEN p0
                ELSE [p0 EXCEPT ![path].count = @ + 1,
                                ![path].agentNames = Append(@, agentName)]
          p2 == IF Len(node.Children) > 0
                THEN collectPaths(node.Children, path, agentName, p1)
                ELSE p1
      IN  collectPaths(Tail(nodes), prefix, agentName, p2)

RECURSIVE collectPaths_ParentPrefix(_, _, _, _)
\* collectPaths that descends with the prefix of the parent, not its path
collectPaths_ParentPrefix(nodes, prefix, agentName, paths) ==
    IF nodes = <<>> THEN paths
    ELSE
      LET node == Head(nodes)
          path == prefix \o <<"/">> \o node.Label
          p0 == IF path \in DOMAIN paths
                THEN paths
                ELSE paths @@ (path :> [label |-> node.Label, count |-> 0,
                                        agentNames |-> <<>>])
          p1 == [p0 EXCEPT ![path].count = @ + 1,
                           ![path].agentNames = Append(@, agentName)]
          p2 == IF Len(node.Children) > 0
                THEN collectPaths_ParentPrefix(node.Children, prefix, agentName, p1)
                ELSE p1
      IN  collectPaths_ParentPrefix(Tail(nodes), prefix, agentName, p2)

\* the path map after walking the sibling list nodes below prefix
collectPaths(nodes, prefix, agentName, paths) ==
    IF nodes = <<>> THEN paths
    ELSE
      LET node == Head(nodes)
          path == prefix \o <<"/">> \o node.Label
          p0 == IF path \in DOMAIN paths
                THEN paths
                ELSE paths @@ (path :> [label |-> node.Label, count |-> 0,
                                        agentNames |-> <<>>])
          p1 == [p0 EXCEPT ![path].count = @ + 1,
                           ![path].agentNames = Append(@, agentName)]
          p2 == IF Len(node.Children) > 0
                THEN collectPaths(node.Children, path, agentName, p1)
                ELSE p1
      IN  collectPaths(Tail(nodes), prefix, agentName, p2)

RECURSIVE collectAllAgents(_, _)
\* the loop of rebuildAggregatedTree over m.agentTrees
collectAllAgents(trees, paths) ==
    IF trees = <<>> THEN paths
    ELSE collectAllAgents(Tail(trees),
             collectPaths(Head(trees).Roots, <<>>, Head(trees).AgentName, paths))

\* the direct children of prefix among the keys of the path map
childPaths(paths, prefix) ==
    { path \in DOMAIN paths :
        /\ HasPrefix(path, prefix \o <<"/">>)
        /\ ~ContainsSlash(TrimPrefix(path, prefix \o <<"/">>)) }

RECURSIVE sortEntries(_, _, _)
\* sort.Slice by count, descending; entries of equal count come out in the
\* order the map iteration delivered them, which tieOrder stands for
sortEntries(S, paths, tieOrder) ==
    IF S = {} THEN <<>>
    ELSE
      LET first == CHOOSE e \in S : \A f \in S \ {e} :
                      \/ paths[e].count > paths[f].count
                      \/ /\ paths[e].count = paths[f].count
                         /\ PosIn(tieOrder, e) < PosIn(tieOrder, f)
      IN  <<first>> \o sortEntries(S \ {first}, paths, tieOrder)

\* the 10% threshold without its floor of 1
anomalyThreshold_NoFloor(totalAgents) == totalAgents \div 10

anomalyThreshold(totalAgents) ==
    IF totalAgents \div 10 < 1 THEN 1 ELSE totalAgents \div 10

isAnomalyOf(count, totalAgents) == count <= anomalyThreshold(totalAgents)

RECURSIVE buildAggregatedNodes(_, _, _, _, _)
RECURSIVE buildEntries(_, _, _, _, _)
buildAggregatedNodes(paths, prefix, totalAgents, anomaliesOnly, tieOrder) ==
    buildEntries(sortEntries(childPaths(paths, prefix), paths, tieOrder),
                 paths, totalAgents, anomaliesOnly, tieOrder)

\* the loop without the "skip non-anomalies" step
buildEntries_NoSkip(entries, paths, totalAgents, anomaliesOnly, tieOrder) ==
    IF entries = <<>> THEN <<>>
    ELSE
      LET e == Head(entries)
          isAnomaly == isAnomalyOf(paths[e].count, totalAgents)
      IN  <<[ID |-> e, Label |-> paths[e].label, Count |-> paths[e].count,
             TotalCount |-> totalAgents, AgentNames |-> paths[e].agentNames,
             IsAnomaly |-> isAnomaly, Expanded |-> FALSE,
             Children |-> buildAggregatedNodes(paths, e, totalAgents,
                                               anomaliesOnly, tieOrder)]>>
          \o buildEntries(Tail(entries), paths, totalAgents, anomaliesOnly, tieOrder)

\* the loop of buildAggregatedNodes over the sorted entries
buildEntries(entries, paths, totalAgents, anomaliesOnly, tieOrder) ==
    IF entries = <<>> THEN <<>>
    ELSE
      LET e == Head(entries)
          isAnomaly == isAnomalyOf(paths[e].count, totalAgents)
          rest == buildEntries(Tail(entries), paths, totalAgents, anomaliesOnly,
                               tieOrder)
      IN  IF anomaliesOnly /\ ~isAnomaly
          THEN rest
          ELSE <<[ID |-> e, Label |-> paths[e].label, Count |-> paths[e].count,
                  TotalCount |-> totalAgents, AgentNames |-> paths[e].agentNames,
                  IsAnomaly |-> isAnomaly, Expanded |-> FALSE,
                  Children |-> buildAggregatedNodes(paths, e, totalAgents,
                                                    anomaliesOnly, tieOrder)]>>
               \o rest

\* labels of the enumerated inputs: two plain ones and one that holds a "/"
AggLabels == {<<"a">>, <<"b">>, <<"a", "/", "b">>}

Leaf(label) == [Label |-> label, Children |-> <<>>, Expanded |-> FALSE]
Inner(label, children) == [Label |-> label, Children |-> children, Expanded |-> FALSE]
Agent(i, roots) ==
    [AgentName |-> AgentNameOf(i), Roots |-> roots, NodeCount |-> CountNodes(roots),
     Expanded |-> FALSE]

\* the trees buildTreeNodes gives {"procs":[{"name":"a.exe"},{"name":"b.exe"}]},
\* {"procs":[{"name":"a.exe"}]} and {"procs":[{"name":"a.exe"}]}
ProcNode(exe) == Inner(<<exe>>, <<Leaf(<<"name", ":", " ", exe>>)>>)
EndToEndScenario ==
    << Agent(1, <<Inner(<<"procs">>, <<ProcNode("a.exe"), ProcNode("b.exe")>>)>>),
       Agent(2, <<Inner(<<"procs">>, <<ProcNode("a.exe")>>)>>),
       Agent(3, <<Inner(<<"procs">>, <<ProcNode("a.exe")>>)>>) >>

\* twenty agents: "common" on ten of them (with a child on the first only),
\* "rare" on one, "pair" on two and "triple" on three
TwentyAgentRoots(i) ==
    (IF i = 1 THEN <<Inner(<<"common">>, <<Leaf(<<"child">>)>>)>> ELSE <<>>)
    \o (IF i \in 2..10 THEN <<Leaf(<<"common">>)>> ELSE <<>>)
    \o (IF i = 11 THEN <<Leaf(<<"rare">>)>> ELSE <<>>)
    \o (IF i \in 12..13 THEN <<Leaf(<<"pair">>)>> ELSE <<>>)
    \o (IF i \in 14..16 THEN <<Leaf(<<"triple">>)>> ELSE <<>>)
TwentyAgentScenario == [i \in 1..20 |-> Agent(i, TwentyAgentRoots(i))]

AggInputs ==
    UNION { AgentSeqs(k, MaxAggNodes, AggLabels, {FALSE}) : k \in 0..MaxAggAgents }
    \cup {EndToEndScenario, TwentyAgentScenario}

\* totalAgents handed to buildAggregatedNodes: the number of agent trees, as
\* rebuildAggregatedTree does, and values around the thresholds 1, 2 and 3
TotalChoices(trees) == ({Len(trees)} \cup {5, 10, 20, 30}) \ {0}

AggIdle ==
    /\ aggTrees = <<>>
    /\ pathCounts = <<>>
    /\ aggregateTree = <<>>
    /\ aggTotal = 0
    /\ aggAnomaliesOnly = FALSE
    /\ aggPc = "idle"

AggInit ==
    /\ aggTrees \in AggInputs
    /\ pathCounts = <<>>
    /\ aggregateTree = <<>>
    /\ aggTotal = 0
    /\ aggAnomaliesOnly = FALSE
    /\ aggPc = "start"

CollectPaths ==
    /\ aggPc = "start"
    /\ pathCounts' = collectAllAgents(aggTrees, <<>>)
    /\ aggPc' = "collected"
    /\ UNCHANGED <<aggTrees, aggregateTree, aggTotal, aggAnomaliesOnly>>

BuildAggregated ==
    /\ aggPc = "collected"
    /\ \E total \in TotalChoices(aggTrees), only \in BOOLEAN,
          tieOrder \in Perms(DOMAIN pathCounts) :
          /\ aggregateTree' = buildAggregatedNodes(pathCounts, <<>>, total, only,
                                                   tieOrder)
          /\ aggTotal' = total
          /\ aggAnomaliesOnly' = only
    /\ aggPc' = "built"
    /\ UNCHANGED <<aggTrees, pathCounts>>

(***************************************************************************)
(* JSON.  A parsed value is a record with one field that names its kind:   *)
(* obj (a function from keys to values), arr (a sequence of values), str   *)
(* (a string), num, bool or null.  An answer is a record with ok (whether  *)
(* json.Unmarshal accepts the text) and data (the parsed value) or raw     *)
(* (the text).                                                             *)
(***************************************************************************)
IsObj(v) == "obj" \in DOMAIN v
IsArr(v) == "arr" \in DOMAIN v
IsStr(v) == "str" \in DOMAIN v
IsNum(v) == "num" \in DOMAIN v
IsBool(v) == "bool" \in DOMAIN v

\* "%v" of a value that is neither an object nor an array
FormatValue(v) ==
    IF IsStr(v) THEN v.str
    ELSE IF IsNum(v) THEN <<IntToStr(v.num)>>
    ELSE IF IsBool(v) THEN (IF v.bool THEN <<"true">> ELSE <<"false">>)
    ELSE <<"<nil>">>

labelKeys == <<"name", "Name", "label", "Label", "title", "Title", "path", "Path",
               "key", "Key", "id", "Id", "ID">>

RECURSIVE findLabelFrom(_, _)
findLabelFrom(m, i) ==
    IF i > Len(labelKeys) THEN <<>>
    ELSE IF /\ labelKeys[i] \in DOMAIN m
            /\ IsStr(m[labelKeys[i]])
            /\ m[labelKeys[i]].str # <<>>
         THEN m[labelKeys[i]].str
         ELSE findLabelFrom(m, i + 1)

\* findLabel: "" (the empty string) when no label key holds a non-empty string
findLabel(m) == findLabelFrom(m, 1)

\* the keys of the enumerated objects: a plain key and a label key
JsonKeys == {"k", "name"}

\* the order in which a range over the map m delivers its keys, for one of
\* the orders keyOrder of all keys
KeysInOrder(m, keyOrder) == SelectSeq(keyOrder, LAMBDA k : k \in DOMAIN m)

(***************************************************************************)
(* Baseline differ                                                         *)
(***************************************************************************)
DiffNew == 0
DiffRemoved == 1
DiffModified == 2
DiffUnchanged == 3

RECURSIVE extractPathsRecursive(_, _, _)
RECURSIVE extractKeys(_, _, _, _)
RECURSIVE extractItems(_, _, _, _)
\* the paths extractPathsRecursive appends, in the order it appends them
extractPathsRecursive(data, prefix, keyOrder) ==
    IF IsObj(data)
    THEN extractKeys(data.obj, KeysInOrder(data.obj, keyOrder), prefix, keyOrder)
    ELSE IF IsArr(data)
         THEN extractItems(data.arr, 1, prefix, keyOrder)
         ELSE <<>>

\* extractKeys that leaves out the leaf paths
extractKeys_NoLeaf(m, keys, prefix, keyOrder) ==
    IF keys = <<>> THEN <<>>
    ELSE
      LET key == Head(keys)
          value == m[key]
          newPath == prefix \o <<"/", key>>
      IN  <<newPath>>
          \o (IF IsObj(value) \/ IsArr(value)
              THEN extractPathsRecursive(value, newPath, keyOrder)
              ELSE <<>>)
          \o extractKeys(m, Tail(keys), prefix, keyOrder)

\* extractKeys that names a key by its position in the iteration
extractKeys_ByPosition(m, keys, prefix, keyOrder) ==
    IF keys = <<>> THEN <<>>
    ELSE
      LET key == Head(keys)
          value == m[key]
          newPath == prefix \o <<"/", IntToStr(Cardinality(DOMAIN m) - Len(keys))>>
      IN  <<newPath>>
          \o (IF IsObj(value) \/ IsArr(value)
              THEN extractPathsRecursive(value, newPath, keyOrder)
              ELSE <<newPath \o <<"=">> \o FormatValue(value)>>)
          \o extractKeys(m, Tail(keys), prefix, keyOrder)

\* the loop over the keys of an object
extractKeys(m, keys, prefix, keyOrder) ==
    IF keys = <<>> THEN <<>>
    ELSE
      LET key == Head(keys)
          value == m[key]
          newPath == prefix \o <<"/", key>>
      IN  <<newPath>>
          \o (IF IsObj(value) \/ IsArr(value)
              THEN extractPathsRecursive(value, newPath, keyOrder)
              ELSE <<newPath \o <<"=">> \o FormatValue(value)>>)
          \o extractKeys(m, Tail(keys), prefix, keyOrder)

\* the path of the array element item at (0-based) index idx
itemPath(item, idx, prefix) ==
    IF IsObj(item) /\ findLabel(item.obj) # <<>>
    THEN prefix \o <<"/">> \o findLabel(item.obj)
    ELSE prefix \o <<"[", IntToStr(idx), "]">>

\* the loop over the elements of an array, from (1-based) position i
extractItems(items, i, prefix, keyOrder) ==
    IF i > Len(items) THEN <<>>
    ELSE
      LET newPath == itemPath(items[i], i - 1, prefix)
      IN  <<newPath>>
          \o extractPathsRecursive(items[i], newPath, keyOrder)
          \o extractItems(items, i + 1, prefix, keyOrder)

extractPaths(answer, keyOrder) ==
    IF ~answer.ok THEN <<>> ELSE extractPathsRecursive(answer.data, <<>>, keyOrder)

RECURSIVE addPaths(_, _, _)
\* the loop "for _, p := range paths" that files agentName under each path
addPaths(paths, agentName, map) ==
    IF paths = <<>> THEN map
    ELSE
      LET p == Head(paths)
          m0 == IF p \in DOMAIN map THEN map ELSE map @@ (p :> {})
      IN  addPaths(Tail(paths), agentName, [m0 EXCEPT ![p] = @ \cup {agentName}])

RECURSIVE pathsToAgents(_, _, _)
\* the map that forgets the results before the last one
pathsToAgents_LastOnly(results, keyOrder, map) ==
    IF results = <<>> THEN map
    ELSE pathsToAgents(Tail(results), keyOrder,
             addPaths(extractPaths(Head(results).AnswerJSON, keyOrder),
                      Head(results).AgentName, <<>>))

\* baselinePaths / currentPaths: path -> the agents that have it
pathsToAgents(results, keyOrder, map) ==
    IF results = <<>> THEN map
    ELSE pathsToAgents(Tail(results), keyOrder,
             addPaths(extractPaths(Head(results).AnswerJSON, keyOrder),
                      Head(results).AgentName, map))

\* every token of the modelled strings, in the byte order of its first character
TokenOrder == <<" ", ",", "/", "0", "1", "2", "3", "4", "5", "6", "7", "8", "9",
                "<nil>", "=", "[", "]", "agent1", "agent2", "agent3", "agent4",
                "false", "k", "name", "true", "x">>
TokenRank(t) == PosIn(TokenOrder, t)

RECURSIVE StringLess(_, _)
\* s < t for strings
StringLess(s, t) ==
    IF t = <<>> THEN FALSE
    ELSE IF s = <<>> THEN TRUE
    ELSE IF Head(s) = Head(t) THEN StringLess(Tail(s), Tail(t))
    ELSE TokenRank(Head(s)) < TokenRank(Head(t))

RECURSIVE SortedNames(_)
\* sort.Strings over the keys of an agent set
SortedNames(S) ==
    IF S = {} THEN <<>>
    ELSE LET first == CHOOSE a \in S : \A b \in S \ {a} : TokenRank(a) < TokenRank(b)
         IN  <<first>> \o SortedNames(S \ {first})
mapKeys(m) == SortedNames(m)

RECURSIVE Join(_, _)
\* strings.Join
Join(list, sep) ==
    IF list = <<>> THEN <<>>
    ELSE IF Len(list) = 1 THEN <<list[1]>>
    ELSE <<list[1]>> \o sep \o Join(Tail(list), sep)

\* the part of the path after its last "/", the whole path when it has none
pathToLabel(path) ==
    IF ContainsSlash(path)
    THEN LET last == CHOOSE i \in DOMAIN path :
                        path[i] = "/" /\ \A j \in DOMAIN path : j > i => path[j] # "/"
         IN  SubSeq(path, last + 1, Len(path))
    ELSE path

DiffItemOf(path, type, agentSet) ==
    [Path |-> path, Label |-> pathToLabel(path), Type |-> type,
     AgentName |-> Join(mapKeys(agentSet), <<",", " ">>),
     AgentCount |-> Len(mapKeys(agentSet))]

DiffLess(a, b) ==
    IF a.Type # b.Type THEN a.Type < b.Type ELSE StringLess(a.Path, b.Path)

RECURSIVE sortDiffs(_)
\* sort.Slice by type, then path
sortDiffs(S) ==
    IF S = {} THEN <<>>
    ELSE LET first == CHOOSE a \in S : \A b \in S \ {a} : DiffLess(a, b)
         IN  <<first>> \o sortDiffs(S \ {first})

\* computeDiffs: the new values of diffs and of the three counts
computeDiffs(baseline, current, baseOrder, curOrder) ==
    LET baselinePaths == pathsToAgents(baseline, baseOrder, <<>>)
        currentPaths == pathsToAgents(current, curOrder, <<>>)
        newItems == { DiffItemOf(p, DiffNew, currentPaths[p]) :
                        p \in DOMAIN currentPaths \ DOMAIN baselinePaths }
        removedItems == { DiffItemOf(p, DiffRemoved, baselinePaths[p]) :
                            p \in DOMAIN baselinePaths \ DOMAIN currentPaths }
    IN  [diffs |-> sortDiffs(newItems \cup removedItems),
         newCount |-> Cardinality(newItems),
         removedCount |-> Cardinality(removedItems),
         modifiedCount |-> 0]

\* getVisibleDiffs
getVisibleDiffs(ds, diffsOnly) ==
    IF ~diffsOnly THEN ds ELSE SelectSeq(ds, LAMBDA d : d.Type # DiffUnchanged)

CompareHeight == 24

\* ensureVisible, for the window height the model is created with
ensureVisible(sel, offset) ==
    LET viewport == CompareHeight - 10
        o1 == IF sel < offset THEN sel ELSE offset
    IN  IF sel >= o1 + viewport THEN sel - viewport + 1 ELSE o1

(***************************************************************************)
(* CompareModel                                                            *)
(***************************************************************************)
JsonScalars == {[str |-> <<"x">>], [num |-> 1]}
JsonKeySeq == <<"k", "name">>

RECURSIVE JsonOfSize(_)
RECURSIVE ObjFields(_, _)
RECURSIVE ArrsOfSize(_)
\* the objects over the keys `keys' whose values hold n JSON values in all
ObjFields(keys, n) ==
    IF keys = <<>> THEN (IF n = 0 THEN {<<>>} ELSE {})
    ELSE ObjFields(Tail(keys), n)
         \cup UNION { { (Head(keys) :> v) @@ f :
                          v \in JsonOfSize(i), f \in ObjFields(Tail(keys), n - i) } :
                      i \in 1..n }

\* the arrays whose elements hold n JSON values in all
ArrsOfSize(n) ==
    IF n = 0 THEN {<<>>}
    ELSE UNION { { <<v>> \o rest : v \in JsonOfSize(i), rest \in ArrsOfSize(n - i) } :
                 i \in 1..n }

\* the values json.Unmarshal can deliver that hold n values, themselves included
JsonOfSize(n) ==
    (IF n = 1 THEN JsonScalars ELSE {})
    \cup { [obj |-> f] : f \in ObjFields(JsonKeySeq, n - 1) }
    \cup { [arr |-> a] : a \in ArrsOfSize(n - 1) }

\* ExecutionResult.AnswerJSON: a text that parses, or one that does not
AnswersOfSize(n) ==
    { [ok |-> TRUE, data |-> v] : v \in JsonOfSize(n) }
    \cup (IF n = 1 THEN {[ok |-> FALSE, raw |-> <<"x">>]} ELSE {})

RECURSIVE ResultSeqs(_, _)
\* the result collections of the agents `names', in this order
ResultSeqs(names, n) ==
    IF names = <<>> THEN (IF n = 0 THEN {<<>>} ELSE {})
    ELSE UNION { { <<[AgentName |-> Head(names), AnswerJSON |-> a]>> \o rest :
                     a \in AnswersOfSize(i), rest \in ResultSeqs(Tail(names), n - i) } :
                 i \in 1..n }

AgentNameSeqs == UNION { Perms({AgentNameOf(i) : i \in 1..k}) : k \in 0..MaxCmpAgents }
ResultsOfSize(n) == UNION { ResultSeqs(names, n) : names \in AgentNameSeqs }
ResultsUpTo(n) == UNION { ResultsOfSize(i) : i \in 0..n }

\* the same results in another order
Reordered(results) ==
    { [i \in DOMAIN results |-> results[perm[i]]] : perm \in Perms(DOMAIN results) }

RECURSIVE Gained(_)
\* the values that are v but for one object in it that has one more key
Gained(v) ==
    IF IsObj(v)
    THEN { [obj |-> v.obj @@ (k :> w)] :
             k \in JsonKeys \ DOMAIN v.obj,
             w \in JsonOfSize(1) \cup JsonOfSize(2) }
         \cup UNION { { [obj |-> [v.obj EXCEPT ![k] = w]] : w \in Gained(v.obj[k]) } :
                      k \in DOMAIN v.obj }
    ELSE IF IsArr(v)
    THEN UNION { { [arr |-> [v.arr EXCEPT ![i] = w]] : w \in Gained(v.arr[i]) } :
                 i \in DOMAIN v.arr }
    ELSE {}

GainedResults(results) ==
    UNION { { [results EXCEPT ![i].AnswerJSON.data = w] :
                w \in Gained(results[i].AnswerJSON.data) } :
            i \in { j \in DOMAIN results : results[j].AnswerJSON.ok } }

\* two agents whose results have a path in common, one that only the baseline
\* has and one that only the current execution has
TwoAgentScenario ==
    LET Res(i, key, v) == [AgentName |-> AgentNameOf(i),
                           AnswerJSON |-> [ok |-> TRUE, data |-> [obj |-> (key :> v)]]]
    IN  << <<Res(1, "k", [num |-> 1]), Res(2, "name", [str |-> <<"x">>])>>,
           <<Res(1, "k", [num |-> 1]), Res(2, "k", [str |-> <<"x">>])>> >>

\* the pairs of collections the two executions can hold: every small pair, a
\* collection and itself in another order, a collection and itself with one
\* more key in one object, and the scenario of two agents
ComparePairs ==
    UNION { ResultsOfSize(i) \X ResultsOfSize(j) :
            <<i, j>> \in { ij \in (0..MaxJsonSize - 1) \X (0..MaxJsonSize - 1) :
                             ij[1] + ij[2] <= MaxJsonSize - 1 } }
    \cup UNION { { <<r, q>> : q \in Reordered(r) } : r \in ResultsUpTo(MaxJsonSize) }
    \cup UNION { { <<r, q>> : q \in GainedResults(r) } : r \in ResultsUpTo(MaxJsonSize - 1) }
    \cup {TwoAgentScenario}

\* NewCompareModel and Init: both fetches are in flight
CompareInit ==
    /\ \E pair \in ComparePairs, berr \in BOOLEAN, cerr \in BOOLEAN :
          /\ baselineFetch = [pending |-> TRUE, err |-> berr,
                              results |-> IF berr THEN <<>> ELSE pair[1]]
          /\ currentFetch = [pending |-> TRUE, err |-> cerr,
                             results |-> IF cerr THEN <<>> ELSE pair[2]]
    /\ baselineResults = <<>>
    /\ currentResults = <<>>
    /\ diffs = <<>>
    /\ newCount = 0
    /\ removedCount = 0
    /\ modifiedCount = 0
    /\ loading = TRUE
    /\ showDiffsOnly = TRUE
    /\ cmpSelectedIdx = 0
    /\ cmpScrollOffset = 0
    /\ cmpErr = "nil"
    /\ dataReady = 0

\* the compare view is not open
CompareIdle ==
    /\ baselineFetch = [pending |-> FALSE, err |-> FALSE, results |-> <<>>]
    /\ currentFetch = [pending |-> FALSE, err |-> FALSE, results |-> <<>>]
    /\ baselineResults = <<>>
    /\ currentResults = <<>>
    /\ diffs = <<>>
    /\ newCount = 0
    /\ removedCount = 0
    /\ modifiedCount = 0
    /\ loading = TRUE
    /\ showDiffsOnly = TRUE
    /\ cmpSelectedIdx = 0
    /\ cmpScrollOffset = 0
    /\ cmpErr = "nil"
    /\ dataReady = 0

\* tryComputeDiffs without its guard
tryComputeDiffs_NoGuard(baseline, current, ready) ==
    /\ loading' = FALSE
    /\ \E baseOrder \in Perms(JsonKeys), curOrder \in Perms(JsonKeys) :
         LET d == computeDiffs(baseline, current, baseOrder, curOrder)
         IN  /\ diffs' = d.diffs
             /\ newCount' = d.newCount
             /\ removedCount' = d.removedCount
             /\ modifiedCount' = d.modifiedCount

\* tryComputeDiffs, for the results and the count the handler has just stored
tryComputeDiffs(baseline, current, ready) ==
    IF ready < 2
    THEN UNCHANGED <<diffs, newCount, removedCount, modifiedCount, loading>>
    ELSE /\ loading' = FALSE
         /\ \E baseOrder \in Perms(JsonKeys), curOrder \in Perms(JsonKeys) :
              LET d == computeDiffs(baseline, current, baseOrder, curOrder)
              IN  /\ diffs' = d.diffs
                  /\ newCount' = d.newCount
                  /\ removedCount' = d.removedCount
                  /\ modifiedCount' = d.modifiedCount

\* Update, case compareBaselineMsg
RecvBaseline ==
    /\ baselineFetch.pending
    /\ baselineFetch' = [baselineFetch EXCEPT !.pending = FALSE]
    /\ IF baselineFetch.err
       THEN /\ cmpErr' = "baseline"
            /\ UNCHANGED <<baselineResults, dataReady, diffs, newCount, removedCount,
                           modifiedCount, loading>>
       ELSE /\ baselineResults' = baselineFetch.results
            /\ dataReady' = dataReady + 1
            /\ tryComputeDiffs(baselineFetch.results, currentResults, dataReady + 1)
            /\ UNCHANGED cmpErr
    /\ UNCHANGED <<currentFetch, currentResults, showDiffsOnly, cmpSelectedIdx,
                   cmpScrollOffset>>

\* Update, case compareCurrentMsg
RecvCurrent ==
    /\ currentFetch.pending
    /\ currentFetch' = [currentFetch EXCEPT !.pending = FALSE]
    /\ IF currentFetch.err
       THEN /\ cmpErr' = "current"
            /\ UNCHANGED <<currentResults, dataReady, diffs, newCount, removedCount,
                           modifiedCount, loading>>
       ELSE /\ currentResults' = currentFetch.results
            /\ dataReady' = dataReady + 1
            /\ tryComputeDiffs(baselineResults, currentFetch.results, dataReady + 1)
            /\ UNCHANGED cmpErr
    /\ UNCHANGED <<baselineFetch, baselineResults, showDiffsOnly, cmpSelectedIdx,
                   cmpScrollOffset>>

\* Update, key "d"
KeyD ==
    /\ showDiffsOnly' = TRUE
    /\ cmpSelectedIdx' = 0
    /\ cmpScrollOffset' = 0
    /\ UNCHANGED <<baselineFetch, currentFetch, baselineResults, currentResults, diffs,
                   newCount, removedCount, modifiedCount, loading, cmpErr, dataReady>>

\* Update, key "a"
KeyA ==
    /\ showDiffsOnly' = FALSE
    /\ cmpSelectedIdx' = 0
    /\ cmpScrollOffset' = 0
    /\ UNCHANGED <<baselineFetch, currentFetch, baselineResults, currentResults, diffs,
                   newCount, removedCount, modifiedCount, loading, cmpErr, dataReady>>

\* Update, keys "up" and "k"
KeyUp ==
    /\ IF cmpSelectedIdx > 0
       THEN /\ cmpSelectedIdx' = cmpSelectedIdx - 1
            /\ cmpScrollOffset' = ensureVisible(cmpSelectedIdx - 1, cmpScrollOffset)
       ELSE UNCHANGED <<cmpSelectedIdx, cmpScrollOffset>>
    /\ UNCHANGED <<baselineFetch, currentFetch, baselineResults, currentResults, diffs,
                   newCount, removedCount, modifiedCount, loading, showDiffsOnly,
                   cmpErr, dataReady>>

\* Update, keys "down" and "j"
KeyDown ==
    /\ LET maxIdx == Len(getVisibleDiffs(diffs, showDiffsOnly)) - 1
       IN  IF cmpSelectedIdx < maxIdx
           THEN /\ cmpSelectedIdx' = cmpSelectedIdx + 1
                /\ cmpScrollOffset' = ensureVisible(cmpSelectedIdx + 1, cmpScrollOffset)
           ELSE UNCHANGED <<cmpSelectedIdx, cmpScrollOffset>>
    /\ UNCHANGED <<baselineFetch, currentFetch, baselineResults, currentResults, diffs,
                   newCount, removedCount, modifiedCount, loading, showDiffsOnly,
                   cmpErr, dataReady>>

(***************************************************************************)
(* Structure detector                                                      *)
(***************************************************************************)
JsonNull == [null |-> TRUE]
IsNull(v) == "null" \in DOMAIN v

\* toStringKey: "" for what is neither a string, a number nor a boolean
toStringKey(val) ==
    IF IsStr(val) THEN val.str
    ELSE IF IsNum(val) THEN <<IntToStr(val.num)>>
    ELSE IF IsBool(val) THEN (IF val.bool THEN <<"true">> ELSE <<"false">>)
    ELSE <<>>

\* row[col], nil when the row has no such key
RowValue(row, col) == IF col \in DOMAIN row THEN row[col] ELSE JsonNull

\* the rows of the array that are objects
rowMapsOf(rows) ==
    LET objs == SelectSeq(rows, IsObj)
    IN  [i \in DOMAIN objs |-> objs[i].obj]

\* idValues: the string keys of the values of idCol that are not nil and not ""
idValuesOf(rowMaps, idCol) ==
    { toStringKey(rowMaps[i][idCol]) :
        i \in { j \in DOMAIN rowMaps :
                  /\ idCol \in DOMAIN rowMaps[j]
                  /\ ~IsNull(rowMaps[j][idCol])
                  /\ toStringKey(rowMaps[j][idCol]) # <<>> } }

\* the parent value that sets hasRoot
IsRootValue(parentVal) ==
    IsNull(parentVal) \/ toStringKey(parentVal) \in {<<>>, <<"0">>}

\* validRefs and hasRoot of one pair of columns
validRefsOf(rowMaps, idValues, parentCol) ==
    Cardinality({ i \in DOMAIN rowMaps :
                    \/ IsRootValue(RowValue(rowMaps[i], parentCol))
                    \/ toStringKey(RowValue(rowMaps[i], parentCol)) \in idValues })
hasRootOf(rowMaps, parentCol) ==
    \E i \in DOMAIN rowMaps : IsRootValue(RowValue(rowMaps[i], parentCol))

\* refRatio >= 0.8: the quotient of the two counts, rounded to a float64, is
\* at least the float64 nearest to 0.8 exactly when 5 * validRefs >= 4 * rows
RatioAccepted(validRefs, n) == 5 * validRefs >= 4 * n

\* hasSelfReferentialFields; the pairs of columns are tried in the order of
\* a map iteration, and the result is true when one of them is accepted
hasSelfReferentialFields(rows) ==
    IF Len(rows) < 2 THEN FALSE
    ELSE
      LET rowMaps == rowMapsOf(rows)
      IN  IF Len(rowMaps) < 2 THEN FALSE
          ELSE
            LET columns == DOMAIN rowMaps[1]
            IN  IF Cardinality(columns) < 2 THEN FALSE
                ELSE \E idCol \in columns :
                       LET idValues == idValuesOf(rowMaps, idCol)
                       IN  /\ idValues # {}
                           /\ \E parentCol \in columns \ {idCol} :
                                /\ RatioAccepted(validRefsOf(rowMaps, idValues, parentCol),
                                                 Len(rowMaps))
                                /\ hasRootOf(rowMaps, parentCol)

\* some value of the object is an object or an array
HasNestedValue(m) == \E k \in DOMAIN m : IsObj(m[k]) \/ IsArr(m[k])

\* hasNestedStructure
hasNestedStructure(data) ==
    IF IsArr(data)
    THEN IF Len(data.arr) = 0 THEN FALSE
         ELSE IF IsObj(data.arr[1])
              THEN HasNestedValue(data.arr[1].obj) \/ hasSelfReferentialFields(data.arr)
              ELSE FALSE
    ELSE IF IsObj(data) THEN HasNestedValue(data.obj)
    ELSE FALSE

\* the values of the columns of the enumerated rows
DetValues ==
    {JsonNull, [num |-> 0], [num |-> 1], [num |-> 2], [str |-> <<>>],
     [str |-> <<"x">>], [str |-> <<"y">>], [obj |-> <<>>]}

\* the rows of two columns, of one column and of none, and a row that is no object
DetRows ==
    { [obj |-> ("id" :> a) @@ ("parent" :> b)] : a \in DetValues, b \in DetValues }
    \cup { [obj |-> ("id" :> a)] : a \in DetValues }
    \cup {[obj |-> <<>>], [num |-> 1]}

RECURSIVE ParentChoices(_, _)
\* the arrays of n rows with the ids 1..n and every choice of parents
ParentChoices(n, parents) ==
    IF n = 0 THEN {<<>>}
    ELSE { rest \o <<[obj |-> ("id" :> [num |-> n]) @@ ("parent" :> p)]>> :
             rest \in ParentChoices(n - 1, parents), p \in parents }

\* the arrays handed to the detector: every pair of rows, and longer arrays
\* whose parents are null, the first id or a dangling reference
DetInputs ==
    {<<>>}
    \cup { <<r>> : r \in DetRows }
    \cup { <<r, s>> : r \in DetRows, s \in DetRows }
    \cup UNION { ParentChoices(n, {JsonNull, [num |-> 1], [str |-> <<"x">>]}) :
                 n \in 3..MaxDetRows }

\* an array has been parsed and is about to be examined
DetInit ==
    /\ detRows \in DetInputs
    /\ detResult = FALSE
    /\ detPc = "start"

\* the detector is not in use
DetIdle ==
    /\ detRows = <<>>
    /\ detResult = FALSE
    /\ detPc = "idle"

\* the call of hasSelfReferentialFields
DetectSelfReferential ==
    /\ detPc = "start"
    /\ detResult' = hasSelfReferentialFields(detRows)
    /\ detPc' = "done"
    /\ UNCHANGED detRows

(***************************************************************************)
(* Results model: trees and table rows from the answers                    *)
(***************************************************************************)
TableView == 0
TreeView == 1
AggregatedView == 2
ResultsTab == 0
ErrorsTab == 1
LabelMax == 100
ErrorMax == 200

\* strings.ReplaceAll twice: "\n" becomes " " and "\r" is removed; a text is
\* a sequence of characters of one byte each
ReplaceNewlines(s) ==
    SelectSeq([i \in DOMAIN s |-> IF s[i] = "\n" THEN " " ELSE s[i]],
              LAMBDA c : c # "\r")

\* truncateString that returns the text as it is
truncateString_Whole(s, max) == ReplaceNewlines(s)

truncateString(s, max) ==
    LET t == ReplaceNewlines(s)
    IN  IF Len(t) <= max THEN t
        ELSE SubSeq(t, 1, max - 3) \o <<".", ".", ".">>

RECURSIVE FormatAny(_)
RECURSIVE FormatFields(_, _)
RECURSIVE FormatItems(_)
\* "%v" of any value: map[k:v k:v] with the keys sorted, [v v] for an array
FormatAny(v) ==
    IF IsObj(v) THEN <<"map[">> \o FormatFields(v.obj, SortedNames(DOMAIN v.obj)) \o <<"]">>
    ELSE IF IsArr(v) THEN <<"[">> \o FormatItems(v.arr) \o <<"]">>
    ELSE FormatValue(v)
FormatFields(m, keys) ==
    IF keys = <<>> THEN <<>>
    ELSE <<Head(keys), ":">> \o FormatAny(m[Head(keys)])
         \o (IF Len(keys) > 1 THEN <<" ">> ELSE <<>>) \o FormatFields(m, Tail(keys))
FormatItems(items) ==
    IF items = <<>> THEN <<>>
    ELSE FormatAny(Head(items))
         \o (IF Len(items) > 1 THEN <<" ">> ELSE <<>>) \o FormatItems(Tail(items))

RECURSIVE buildTreeNodes(_, _, _, _)
RECURSIVE buildKeyNodes(_, _, _, _, _)
RECURSIVE buildItemNodes(_, _, _, _, _)
\* buildTreeNodes: the nodes and the count after them; the keys of an object
\* come in the order of the map iteration
buildTreeNodes(data, depth, count, keyOrder) ==
    IF IsObj(data)
    THEN buildKeyNodes(data.obj, KeysInOrder(data.obj, keyOrder), depth, count, keyOrder)
    ELSE IF IsArr(data)
         THEN buildItemNodes(data.arr, 1, depth, count, keyOrder)
         ELSE [nodes |-> <<>>, count |-> count]

RECURSIVE buildKeyNodes_CountInLabel(_, _, _, _, _)
\* the loop over the keys of an object, a leaf's label carrying the running
\* count as the ID does
buildKeyNodes_CountInLabel(m, keys, depth, count, keyOrder) ==
    IF keys = <<>> THEN [nodes |-> <<>>, count |-> count]
    ELSE
      LET key == Head(keys)
          value == m[key]
          isLeaf == ~(IsObj(value) \/ IsArr(value))
          sub == IF isLeaf THEN [nodes |-> <<>>, count |-> count + 1]
                 ELSE buildTreeNodes(value, depth + 1, count + 1, keyOrder)
          node == [ID |-> <<IntToStr(count + 1), "-", key>>,
                   Label |-> IF isLeaf
                             THEN <<IntToStr(count + 1), "-", key, ":", " ">>
                                  \o FormatValue(value)
                             ELSE <<key>>,
                   Depth |-> depth, Expanded |-> FALSE, Children |-> sub.nodes]
          rest == buildKeyNodes_CountInLabel(m, Tail(keys), depth, sub.count, keyOrder)
      IN  [nodes |-> <<node>> \o rest.nodes, count |-> rest.count]

\* the loop over the keys of an object
buildKeyNodes(m, keys, depth, count, keyOrder) ==
    IF keys = <<>> THEN [nodes |-> <<>>, count |-> count]
    ELSE
      LET key == Head(keys)
          value == m[key]
          isLeaf == ~(IsObj(value) \/ IsArr(value))
          sub == IF isLeaf THEN [nodes |-> <<>>, count |-> count + 1]
                 ELSE buildTreeNodes(value, depth + 1, count + 1, keyOrder)
          node == [ID |-> <<IntToStr(count + 1), "-", key>>,
                   Label |-> IF isLeaf THEN <<key, ":", " ">> \o FormatValue(value)
                             ELSE <<key>>,
                   Depth |-> depth, Expanded |-> FALSE, Children |-> sub.nodes]
          rest == buildKeyNodes(m, Tail(keys), depth, sub.count, keyOrder)
      IN  [nodes |-> <<node>> \o rest.nodes, count |-> rest.count]

\* the loop over the elements of an array, from (1-based) position i
buildItemNodes(items, i, depth, count, keyOrder) ==
    IF i > Len(items) THEN [nodes |-> <<>>, count |-> count]
    ELSE
      LET item == items[i]
          idx == IntToStr(i - 1)
          sub == IF IsObj(item) \/ IsArr(item)
                 THEN buildTreeNodes(item, depth + 1, count + 1, keyOrder)
                 ELSE [nodes |-> <<>>, count |-> count + 1]
          label == IF IsObj(item)
                   THEN (IF findLabel(item.obj) = <<>> THEN <<"[", idx, "]">>
                         ELSE findLabel(item.obj))
                   ELSE IF IsArr(item)
                   THEN <<"[", idx, "]", " ", "(", IntToStr(Len(item.arr)), " ", "items", ")">>
                   ELSE <<"[", idx, "]", ":", " ">> \o FormatValue(item)
          node == [ID |-> <<IntToStr(count + 1), "-", "[", idx, "]">>,
                   Label |-> label, Depth |-> depth, Expanded |-> FALSE,
                   Children |-> sub.nodes]
          rest == buildItemNodes(items, i + 1, depth, sub.count, keyOrder)
      IN  [nodes |-> <<node>> \o rest.nodes, count |-> rest.count]

\* buildAgentTree
buildAgentTree(result, keyOrder) ==
    IF ~result.AnswerJSON.ok
    THEN [AgentName |-> result.AgentName, Expanded |-> FALSE, NodeCount |-> 1,
          Roots |-> <<[ID |-> <<"0">>,
                       Label |-> truncateString(result.AnswerJSON.raw, LabelMax),
                       Depth |-> 0, Expanded |-> FALSE, Children |-> <<>>]>>]
    ELSE LET built == buildTreeNodes(result.AnswerJSON.data, 0, 0, keyOrder)
         IN  [AgentName |-> result.AgentName, Expanded |-> FALSE,
              NodeCount |-> built.count, Roots |-> built.nodes]

\* the trees of a list of results
buildAgentTrees(results, keyOrder) ==
    [i \in DOMAIN results |-> buildAgentTree(results[i], keyOrder)]

\* normalizeToRows
normalizeToRows(data) ==
    IF IsArr(data)
    THEN LET objs == SelectSeq(data.arr, IsObj) IN [i \in DOMAIN objs |-> objs[i].obj]
    ELSE IF IsObj(data) THEN <<data.obj>>
    ELSE <<>>

RECURSIVE JoinItems(_)
\* strings.Join of the "%v" of the items with ", "
JoinItems(items) ==
    IF items = <<>> THEN <<>>
    ELSE FormatAny(Head(items))
         \o (IF Len(items) > 1 THEN <<",", " ">> ELSE <<>>) \o JoinItems(Tail(items))

RECURSIVE flattenObject(_, _)
\* flattenObject: column name -> text; a name is the sequence of the keys
\* that the dots join
flattenObject(obj, prefix) ==
    LET Cell(key) ==
          LET value == obj[key]
              fullKey == prefix \o <<key>>
          IN  IF IsObj(value) THEN flattenObject(value.obj, fullKey)
              ELSE IF IsArr(value)
              THEN fullKey :> (IF Len(value.arr) = 0 THEN <<"[]">>
                               ELSE IF Len(value.arr) <= 3 THEN JoinItems(value.arr)
                               ELSE <<"[", IntToStr(Len(value.arr)), " ", "items", "]">>)
              ELSE IF IsNull(value) THEN fullKey :> <<>>
              ELSE fullKey :> FormatValue(value)
        cols == UNION { DOMAIN Cell(key) : key \in DOMAIN obj }
    IN  [c \in cols |-> Cell(CHOOSE key \in DOMAIN obj : c \in DOMAIN Cell(key))[c]]

\* the text of the answer of a result with an error; such a result holds a
\* text that is no JSON document (the empty text, mostly)
AnswerText(answer) == answer.raw

\* the rows buildTableData appends for one result
tableRowsOf(r) ==
    IF r.HasError
    THEN LET msg == IF r.RawStdError # <<>> THEN r.RawStdError
                    ELSE IF AnswerText(r.AnswerJSON) # <<>> THEN AnswerText(r.AnswerJSON)
                    ELSE <<"(no error message)">>
         IN  <<[AgentName |-> r.AgentName, RowIndex |-> 0, HasError |-> TRUE,
                Data |-> (<<"Error">> :> truncateString(msg, ErrorMax))]>>
    ELSE IF ~r.AnswerJSON.ok
    THEN <<[AgentName |-> r.AgentName, RowIndex |-> 0, HasError |-> FALSE,
            Data |-> (<<"Value">> :> truncateString(r.AnswerJSON.raw, LabelMax))]>>
    ELSE LET rows == normalizeToRows(r.AnswerJSON.data)
         IN  IF Len(rows) = 0
             THEN <<[AgentName |-> r.AgentName, RowIndex |-> 0, HasError |-> FALSE,
                     Data |-> <<>>]>>
             ELSE [i \in DOMAIN rows |->
                     [AgentName |-> r.AgentName, RowIndex |-> i - 1, HasError |-> FALSE,
                      Data |-> flattenObject(rows[i], <<>>)]]

RECURSIVE buildTableRows(_)
\* buildTableData: the rows of all the results
buildTableRows(results) ==
    IF results = <<>> THEN <<>>
    ELSE tableRowsOf(Head(results)) \o buildTableRows(Tail(results))

(***************************************************************************)
(* Results model: state and handlers.  A state of the model and of its     *)
(* components is a record st; each function of the program is a function   *)
(* from such a record to the record after it.                              *)
(***************************************************************************)
\* the fields of ResultsModel, its view mode bar and its tree view
ModelState ==
    [results |-> rmResults, errors |-> rmErrors, agentTrees |-> rmAgentTrees,
     aggregateTree |-> rmAggregateTree, tableRows |-> rmTableRows,
     isTreeData |-> rmIsTreeData, viewMode |-> rmViewMode,
     currentTab |-> rmCurrentTab, showAnomaliesOnly |-> rmShowAnomaliesOnly,
     tableSelectedIdx |-> rmTableSelectedIdx, tableScrollOffset |-> rmTableScrollOffset,
     barActiveIdx |-> barActiveIdx, barTreeEnabled |-> barTreeEnabled,
     agents |-> agents, flatNodes |-> flatNodes, selectedIdx |-> selectedIdx]

\* the record st becomes the next state
Commit(st) ==
    /\ rmResults' = st.results
    /\ rmErrors' = st.errors
    /\ rmAgentTrees' = st.agentTrees
    /\ rmAggregateTree' = st.aggregateTree
    /\ rmTableRows' = st.tableRows
    /\ rmIsTreeData' = st.isTreeData
    /\ rmViewMode' = st.viewMode
    /\ rmCurrentTab' = st.currentTab
    /\ rmShowAnomaliesOnly' = st.showAnomaliesOnly
    /\ rmTableSelectedIdx' = st.tableSelectedIdx
    /\ rmTableScrollOffset' = st.tableScrollOffset
    /\ barActiveIdx' = st.barActiveIdx
    /\ barTreeEnabled' = st.barTreeEnabled
    /\ agents' = st.agents
    /\ flatNodes' = st.flatNodes
    /\ selectedIdx' = st.selectedIdx

\* TreeView.SetAgents
treeViewSetAgents(st, ags) ==
    LET r == rebuildFlatList(ags, st.selectedIdx)
    IN  [st EXCEPT !.agents = ags, !.flatNodes = r.flatNodes,
                   !.selectedIdx = r.selectedIdx]

\* ViewModeBar.SetTreeEnabled
barSetTreeEnabled(st, enabled) ==
    [st EXCEPT !.barTreeEnabled = enabled,
               !.barActiveIdx = IF ~enabled /\ @ > 0 THEN 0 ELSE @]

\* ViewModeBar.SetActive
barSetActive(st, idx) ==
    IF idx >= 0 /\ idx < 3 /\ ~(~st.barTreeEnabled /\ idx > 0)
    THEN [st EXCEPT !.barActiveIdx = idx]
    ELSE st

\* getCurrentResults
getCurrentResults(st) ==
    IF st.currentTab = ErrorsTab THEN st.errors
    ELSE SelectSeq(st.results, LAMBDA r : ~r.HasError)

\* buildTableData
buildTableData(st) == [st EXCEPT !.tableRows = buildTableRows(getCurrentResults(st))]

\* detectTreeApplicability looking at every result of the tab
detectTreeApplicability_AnyResult(st) ==
    LET results == getCurrentResults(st)
        nested == \E i \in DOMAIN results :
                      /\ results[i].AnswerJSON.ok
                      /\ hasNestedStructure(results[i].AnswerJSON.data)
    IN  barSetTreeEnabled([st EXCEPT !.isTreeData = nested], nested)

\* detectTreeApplicability
detectTreeApplicability(st) ==
    LET results == getCurrentResults(st)
    IN  IF Len(results) = 0 \/ ~results[1].AnswerJSON.ok
        THEN barSetTreeEnabled([st EXCEPT !.isTreeData = FALSE], FALSE)
        ELSE LET nested == hasNestedStructure(results[1].AnswerJSON.data)
             IN  barSetTreeEnabled([st EXCEPT !.isTreeData = nested], nested)

\* rebuildTreeFromResults
rebuildTreeFromResults(st, keyOrder) ==
    LET trees == buildAgentTrees(getCurrentResults(st), keyOrder)
    IN  treeViewSetAgents([st EXCEPT !.agentTrees = trees], trees)

\* rebuildTreeFromErrors
rebuildTreeFromErrors(st, keyOrder) ==
    LET trees == buildAgentTrees(st.errors, keyOrder)
    IN  treeViewSetAgents([st EXCEPT !.agentTrees = trees], trees)

\* the tree of the current tab
rebuildTreeOfTab(st, keyOrder) ==
    IF st.currentTab = ErrorsTab THEN rebuildTreeFromErrors(st, keyOrder)
    ELSE rebuildTreeFromResults(st, keyOrder)

\* the prefix that has the path among its direct children
ParentPrefix(path) ==
    LET last == CHOOSE i \in DOMAIN path :
                    path[i] = "/" /\ \A j \in DOMAIN path : path[j] = "/" => j <= i
    IN  SubSeq(path, 1, last - 1)

RECURSIVE ConcatPerms(_)
\* the sequences that list the sets of classes one after another, each in any order
ConcatPerms(classes) ==
    IF classes = {} THEN {<<>>}
    ELSE LET c == CHOOSE x \in classes : TRUE
         IN  { q \o r : q \in Perms(c), r \in ConcatPerms(classes \ {c}) }

\* the orders in which the map iteration can deliver the entries that
\* sort.Slice has to order: those of one prefix with one count, in any order
tieOrders(paths) ==
    ConcatPerms({ { q \in DOMAIN paths : /\ ParentPrefix(q) = ParentPrefix(path)
                                         /\ paths[q].count = paths[path].count } :
                  path \in DOMAIN paths })

\* rebuildAggregatedTree: the states it can lead to, one for every order in
\* which the map iteration can deliver entries of equal count
rebuildAggregatedTree(st) ==
    LET totalAgents == Len(st.agentTrees)
    IN  IF totalAgents = 0 THEN {st}
        ELSE
          LET paths == collectAllAgents(st.agentTrees, <<>>)
          IN  { LET roots == buildAggregatedNodes(paths, <<>>, totalAgents,
                                                  st.showAnomaliesOnly, tieOrder)
                    aggregatedAgent ==
                        [AgentName |-> "All Agents (" \o IntToStr(totalAgents) \o ")",
                         Roots |-> roots, NodeCount |-> Cardinality(DOMAIN paths),
                         Expanded |-> TRUE]
                IN  treeViewSetAgents([st EXCEPT !.aggregateTree = roots],
                                      <<aggregatedAgent>>) :
                tieOrder \in tieOrders(paths) }

\* setViewMode: the states it can lead to
setViewMode(st, mode, keyOrder) ==
    LET s1 == barSetActive([st EXCEPT !.viewMode = mode], mode)
    IN  IF mode = AggregatedView
        THEN rebuildAggregatedTree(IF Len(s1.agentTrees) = 0
                                   THEN rebuildTreeOfTab(s1, keyOrder) ELSE s1)
        ELSE IF mode = TreeView THEN {rebuildTreeOfTab(s1, keyOrder)}
        ELSE {s1}

\* nextTab
nextTab(st, keyOrder) ==
    LET s1 == [st EXCEPT !.currentTab = (@ + 1) % 2,
                         !.tableSelectedIdx = 0, !.tableScrollOffset = 0]
    IN  rebuildTreeOfTab(buildTableData(s1), keyOrder)

\* processResults: the states it can lead to
processResults(st, keyOrder) ==
    LET s1 == [st EXCEPT !.errors = SelectSeq(st.results, LAMBDA r : r.HasError)]
        s2 == detectTreeApplicability(buildTableData(s1))
    IN  IF s2.viewMode = AggregatedView
        THEN rebuildAggregatedTree(rebuildTreeFromResults(s2, keyOrder))
        ELSE IF s2.viewMode = TreeView THEN {rebuildTreeFromResults(s2, keyOrder)}
        ELSE {s2}

(***************************************************************************)
(* Results model: the commands in flight and the handlers of Update.       *)
(* A command in flight is a record: a fetch (of the execution, the status  *)
(* or the results) that the server has answered or not yet, or a tick.     *)
(***************************************************************************)
Terminal(state) == state = "Completed" \/ state = "Failed"

\* the commands fetchExecution, fetchStatus and fetchResults before their answer
fetchExecution(id) == [kind |-> "execution", id |-> id, served |-> FALSE, err |-> FALSE]
fetchStatus(id) ==
    [kind |-> "status", id |-> id, served |-> FALSE, err |-> FALSE, state |-> ""]
fetchResults(id) ==
    [kind |-> "results", id |-> id, served |-> FALSE, err |-> FALSE, results |-> <<>>]
tick(id) == [kind |-> "tick", id |-> id]

\* the answer of the server to a fetch, or the failure of the call
Answered(msg, err) ==
    IF err THEN [msg EXCEPT !.served = TRUE, !.err = TRUE]
    ELSE IF msg.kind = "status" THEN [msg EXCEPT !.served = TRUE, !.state = srvState]
    ELSE IF msg.kind = "results" THEN [msg EXCEPT !.served = TRUE, !.results = srvResults]
    ELSE [msg EXCEPT !.served = TRUE]

\* a text of n characters
XText(n) == [i \in 1..n |-> "x"]

Valid(v) == [ok |-> TRUE, data |-> v]
Malformed(text) == [ok |-> FALSE, raw |-> text]
ResultOf(i, answer) ==
    [AgentName |-> AgentNameOf(i), AnswerJSON |-> answer, RawStdError |-> <<>>,
     HasError |-> FALSE]
ErrorOf(i, stderr) ==
    [AgentName |-> AgentNameOf(i), AnswerJSON |-> Malformed(<<>>), RawStdError |-> stderr,
     HasError |-> TRUE]

\* {"k":"x"}, {"k":["x"]}, [{"name":"x","k":{"k":1}}] and 1
FlatAnswer == Valid([obj |-> ("k" :> [str |-> <<"x">>])])
NestedAnswer == Valid([obj |-> ("k" :> [arr |-> <<[str |-> <<"x">>]>>])])
NestedArrayAnswer ==
    Valid([arr |-> <<[obj |-> ("name" :> [str |-> <<"x">>]
                               @@ "k" :> [obj |-> ("k" :> [num |-> 1])])]>>])
ScalarAnswer == Valid([num |-> 1])
\* rows without nested values: [{"k":1,"name":0},{"k":2,"name":1}], where
\* "name" refers to "k" as a parent column does, and [{"k":1,"name":0}]
FlatRow(id, parent) == [obj |-> ("k" :> [num |-> id] @@ "name" :> [num |-> parent])]
SelfRefRowsAnswer == Valid([arr |-> <<FlatRow(1, 0), FlatRow(2, 1)>>])
FlatRowAnswer == Valid([arr |-> <<FlatRow(1, 0)>>])

\* texts that are no JSON document: the empty one, a short one, one of 100
\* and one of 101 characters, one with line breaks
MalformedTexts ==
    {<<>>, <<"x">>, XText(LabelMax), XText(LabelMax + 1), <<"x", "\n", "x", "\r">>}

\* what one agent can have reported
FirstResults ==
    {ResultOf(1, a) : a \in {FlatAnswer, NestedAnswer, NestedArrayAnswer, ScalarAnswer}}
    \cup {ResultOf(1, Malformed(t)) : t \in MalformedTexts}
    \cup {ErrorOf(1, <<>>), ErrorOf(1, <<"x">>)}
SecondResults ==
    {ResultOf(2, FlatAnswer), ResultOf(2, NestedAnswer), ResultOf(2, Malformed(<<"x">>)),
     ErrorOf(2, <<"x">>)}

\* the result collections a results fetch can bring
ResultInputs ==
    {<<>>} \cup {<<r>> : r \in FirstResults}
    \cup {<<r1, r2>> : r1 \in FirstResults, r2 \in SecondResults}
    \cup {<<ResultOf(1, FlatRowAnswer)>>, <<ResultOf(1, SelfRefRowsAnswer)>>}

\* the result collections a later fetch of the same run can bring
RefreshInputs ==
    {<<>>, <<ResultOf(1, FlatAnswer)>>, <<ResultOf(1, NestedAnswer)>>,
     <<ResultOf(1, NestedArrayAnswer), ResultOf(2, NestedAnswer)>>}

\* the --view and --anomalies options of the results command: the initial
\* view mode and, for the aggregated view only, the anomalies filter
ViewOptions ==
    {<<TableView, FALSE>>, <<TreeView, FALSE>>, <<AggregatedView, FALSE>>,
     <<AggregatedView, TRUE>>}

\* NewResultsModel, then SetInitialViewMode and SetAnomaliesOnly as the
\* results command calls them
ConstructedWith(mode, anomaliesOnly) ==
    /\ rmViewMode = mode
    /\ barTreeEnabled = TRUE
    /\ barActiveIdx = mode
    /\ rmShowAnomaliesOnly = anomaliesOnly
    /\ rmIsTreeData = FALSE
    /\ rmCurrentTab = ResultsTab
    /\ rmResults = <<>>
    /\ rmErrors = <<>>
    /\ rmAgentTrees = <<>>
    /\ rmAggregateTree = <<>>
    /\ rmTableRows = <<>>
    /\ rmTableSelectedIdx = 0
    /\ rmTableScrollOffset = 0
    /\ rmLoading = TRUE
    /\ rmErr = FALSE

\* the model that no program runs
ResultsIdle ==
    /\ ConstructedWith(TableView, FALSE)
    /\ rmStatus = "nil"
    /\ rmInFlight = {}
    /\ rmIssued = 0
    /\ rmShownFetch = 0
    /\ srvState = "Pending"
    /\ srvResults = <<>>

\* the state after Init: the three fetches are in flight
ResultsInit ==
    /\ \E opts \in ViewOptions : ConstructedWith(opts[1], opts[2])
    /\ rmStatus = "nil"
    /\ rmInFlight = {fetchExecution(1), fetchStatus(2), fetchResults(3)}
    /\ rmIssued = 3
    /\ rmShownFetch = 0
    /\ srvState \in {"Pending", "Running"}
    /\ srvResults = <<>>

\* the state after Init, a first status of a running execution, and the tick
\* that followed it: the first results fetch and the one of the tick have got
\* their answers and wait to be delivered, the status fetch has got none
ResultsRefreshing ==
    /\ \E opts \in ViewOptions : ConstructedWith(opts[1], opts[2])
    /\ rmStatus = "Running"
    /\ \E first \in ResultInputs, second \in RefreshInputs :
           rmInFlight = {[fetchResults(3) EXCEPT !.served = TRUE, !.results = first],
                         fetchStatus(5),
                         [fetchResults(6) EXCEPT !.served = TRUE, !.results = second]}
    /\ rmIssued = 6
    /\ rmShownFetch = 0
    /\ srvState = "Running"
    /\ srvResults = <<>>

\* an agent reports its result to the server
AgentReports ==
    /\ srvState \in {"Pending", "Running"}
    /\ Len(srvResults) < MaxPollResults
    /\ srvResults' = Append(srvResults, ResultOf(Len(srvResults) + 1, FlatAnswer))
    /\ srvState' = "Running"
    /\ UNCHANGED <<rmViewVars, rmPollVars>>

\* the execution ends on the server
ServerFinishes ==
    /\ srvState \in {"Pending", "Running"}
    /\ srvState' \in {"Completed", "Failed"}
    /\ UNCHANGED <<srvResults, rmViewVars, rmPollVars>>

\* the API call of a fetch returns
Serve ==
    \E msg \in rmInFlight, err \in BOOLEAN :
        /\ msg.kind # "tick"
        /\ ~msg.served
        /\ rmInFlight' = (rmInFlight \ {msg}) \cup {Answered(msg, err)}
        /\ UNCHANGED <<rmViewVars, rmStatus, rmLoading, rmErr, rmIssued, rmShownFetch, srvVars>>

\* case executionMsg
RecvExecution ==
    \E msg \in rmInFlight :
        /\ msg.kind = "execution" /\ msg.served
        /\ rmErr' = (rmErr \/ msg.err)
        /\ rmInFlight' = rmInFlight \ {msg}
        /\ UNCHANGED <<rmViewVars, rmStatus, rmLoading, rmIssued, rmShownFetch, srvVars>>

\* case statusMsg that re-arms the tick after every status
RecvStatus_AlwaysTick ==
    \E msg \in rmInFlight :
        /\ msg.kind = "status" /\ msg.served
        /\ IF msg.err
           THEN /\ rmErr' = TRUE
                /\ rmInFlight' = rmInFlight \ {msg}
                /\ UNCHANGED <<rmStatus, rmIssued>>
           ELSE /\ rmStatus' = msg.state
                /\ rmIssued < MaxFetches
                /\ rmInFlight' = (rmInFlight \ {msg}) \cup {tick(rmIssued + 1)}
                /\ rmIssued' = rmIssued + 1
                /\ UNCHANGED rmErr
        /\ UNCHANGED <<rmViewVars, rmLoading, rmShownFetch, srvVars>>

\* case statusMsg
RecvStatus ==
    \E msg \in rmInFlight :
        /\ msg.kind = "status" /\ msg.served
        /\ IF msg.err
           THEN /\ rmErr' = TRUE
                /\ rmInFlight' = rmInFlight \ {msg}
                /\ UNCHANGED <<rmStatus, rmIssued>>
           ELSE /\ rmStatus' = msg.state
                /\ IF ~Terminal(msg.state)
                   THEN /\ rmIssued < MaxFetches
                        /\ rmInFlight' = (rmInFlight \ {msg}) \cup {tick(rmIssued + 1)}
                        /\ rmIssued' = rmIssued + 1
                   ELSE /\ rmInFlight' = rmInFlight \ {msg}
                        /\ UNCHANGED rmIssued
                /\ UNCHANGED rmErr
        /\ UNCHANGED <<rmViewVars, rmLoading, rmShownFetch, srvVars>>

\* case tickMsg that also arms the next tick
RecvTick_Rearm ==
    \E msg \in rmInFlight :
        /\ msg.kind = "tick"
        /\ rmIssued + 2 <= MaxFetches
        /\ rmInFlight' = (rmInFlight \ {msg})
                         \cup {fetchStatus(rmIssued + 1), tick(rmIssued + 2)}
        /\ rmIssued' = rmIssued + 2
        /\ UNCHANGED <<rmViewVars, rmStatus, rmLoading, rmErr, rmShownFetch, srvVars>>

\* case tickMsg
RecvTick ==
    \E msg \in rmInFlight :
        /\ msg.kind = "tick"
        /\ IF rmStatus # "nil" /\ ~Terminal(rmStatus)
           THEN /\ rmIssued + 2 <= MaxFetches
                /\ rmInFlight' = (rmInFlight \ {msg})
                                 \cup {fetchStatus(rmIssued + 1), fetchResults(rmIssued + 2)}
                /\ rmIssued' = rmIssued + 2
           ELSE /\ rmIssued + 1 <= MaxFetches
                /\ rmInFlight' = (rmInFlight \ {msg}) \cup {fetchStatus(rmIssued + 1)}
                /\ rmIssued' = rmIssued + 1
        /\ UNCHANGED <<rmViewVars, rmStatus, rmLoading, rmErr, rmShownFetch, srvVars>>

\* case resultsMsg
RecvResults ==
    \E msg \in rmInFlight :
        /\ msg.kind = "results" /\ msg.served
        /\ rmLoading' = FALSE
        /\ rmInFlight' = rmInFlight \ {msg}
        /\ IF msg.err
           THEN /\ rmErr' = TRUE
                /\ UNCHANGED <<rmViewVars, rmShownFetch, agents, flatNodes, selectedIdx>>
           ELSE /\ \E keyOrder \in Perms(JsonKeys) :
                     \E st \in processResults([ModelState EXCEPT !.results = msg.results],
                                              keyOrder) : Commit(st)
                /\ rmShownFetch' = msg.id
                /\ UNCHANGED rmErr
        /\ UNCHANGED <<rmStatus, rmIssued, srvVars, viewportStart, viewportHeight>>

\* case "tab"
PressTab ==
    /\ \E keyOrder \in Perms(JsonKeys) : Commit(nextTab(ModelState, keyOrder))
    /\ UNCHANGED <<rmPollVars, srvVars, viewportStart, viewportHeight>>

\* case "1"
Press1 ==
    /\ \E keyOrder \in Perms(JsonKeys) :
           \E st \in setViewMode(ModelState, TableView, keyOrder) : Commit(st)
    /\ UNCHANGED <<rmPollVars, srvVars, viewportStart, viewportHeight>>

\* case "2"
Press2 ==
    /\ IF rmIsTreeData
       THEN \E keyOrder \in Perms(JsonKeys) :
                \E st \in setViewMode(ModelState, TreeView, keyOrder) : Commit(st)
       ELSE UNCHANGED <<rmViewVars, agents, flatNodes, selectedIdx>>
    /\ UNCHANGED <<rmPollVars, srvVars, viewportStart, viewportHeight>>

\* case "3"
Press3 ==
    /\ IF rmIsTreeData
       THEN \E keyOrder \in Perms(JsonKeys) :
                \E st \in setViewMode(ModelState, AggregatedView, keyOrder) : Commit(st)
       ELSE UNCHANGED <<rmViewVars, agents, flatNodes, selectedIdx>>
    /\ UNCHANGED <<rmPollVars, srvVars, viewportStart, viewportHeight>>

\* case "a"
PressA ==
    /\ IF rmViewMode = AggregatedView
       THEN \E st \in rebuildAggregatedTree(
                        [ModelState EXCEPT !.showAnomaliesOnly = ~rmShowAnomaliesOnly]) :
                Commit(st)
       ELSE UNCHANGED <<rmViewVars, agents, flatNodes, selectedIdx>>
    /\ UNCHANGED <<rmPollVars, srvVars, viewportStart, viewportHeight>>

(***************************************************************************)
(* Results model: the detail view of a table row.  The text of the detail  *)
(* view is a sequence of tokens, without the colours of the styles.        *)
(***************************************************************************)
WindowWidth == 80    \* m.width
WindowHeight == 12   \* m.height

Indent(depth) == [i \in 1..depth |-> "  "]

\* a character of a string as the JSON encoder writes it
EscapeChar(c) == IF c = "\n" THEN "\\n" ELSE IF c = "\r" THEN "\\r" ELSE c

RECURSIVE MarshalIndent(_, _)
RECURSIVE MarshalFields(_, _, _)
RECURSIVE MarshalItems(_, _)
\* json.MarshalIndent(v, "", "  ") of a parsed value, at a nesting depth: the
\* keys of an object sorted, one property or element per line
MarshalIndent(v, depth) ==
    IF IsObj(v)
    THEN IF DOMAIN v.obj = {} THEN <<"{}">>
         ELSE <<"{", "\n">> \o MarshalFields(v.obj, SortedNames(DOMAIN v.obj), depth + 1)
              \o <<"\n">> \o Indent(depth) \o <<"}">>
    ELSE IF IsArr(v)
    THEN IF Len(v.arr) = 0 THEN <<"[]">>
         ELSE <<"[", "\n">> \o MarshalItems(v.arr, depth + 1)
              \o <<"\n">> \o Indent(depth) \o <<"]">>
    ELSE IF IsStr(v)
    THEN <<"\"">> \o [i \in DOMAIN v.str |-> EscapeChar(v.str[i])] \o <<"\"">>
    ELSE IF IsNum(v) THEN <<IntToStr(v.num)>>
    ELSE IF IsBool(v) THEN (IF v.bool THEN <<"true">> ELSE <<"false">>)
    ELSE <<"null">>
MarshalFields(m, keys, depth) ==
    Indent(depth) \o <<"\"", Head(keys), "\"", ":", " ">> \o MarshalIndent(m[Head(keys)], depth)
    \o (IF Len(keys) > 1 THEN <<",", "\n">> \o MarshalFields(m, Tail(keys), depth)
        ELSE <<>>)
MarshalItems(items, depth) ==
    Indent(depth) \o MarshalIndent(Head(items), depth)
    \o (IF Len(items) > 1 THEN <<",", "\n">> \o MarshalItems(Tail(items), depth)
        ELSE <<>>)

RECURSIVE SplitLines(_)
\* strings.Split(text, "\n")
SplitLines(text) ==
    IF \A i \in DOMAIN text : text[i] # "\n" THEN <<text>>
    ELSE LET n == CHOOSE i \in DOMAIN text :
                      text[i] = "\n" /\ \A j \in 1..(i - 1) : text[j] # "\n"
         IN  <<SubSeq(text, 1, n - 1)>> \o SplitLines(SubSeq(text, n + 1, Len(text)))

RECURSIVE WrapLong(_, _)
\* the loop of wrapText over a line longer than width, and what it writes
\* for the rest of the line
WrapLong(line, width) ==
    IF Len(line) > width
    THEN LET spaces == {i \in 1..(width - 1) : i > width \div 2 /\ line[i + 1] = " "}
             breakPoint == IF spaces = {} THEN width
                           ELSE CHOOSE i \in spaces : \A j \in spaces : j <= i
             rest == SubSeq(line, breakPoint + 1, Len(line))
         IN  SubSeq(line, 1, breakPoint) \o <<"\n">>
             \o WrapLong(IF rest # <<>> /\ Head(rest) = " " THEN Tail(rest) ELSE rest, width)
    ELSE IF Len(line) > 0 THEN line \o <<"\n">>
    ELSE <<>>

RECURSIVE WrapLines(_, _)
WrapLines(lines, width) ==
    IF lines = <<>> THEN <<>>
    ELSE (IF Len(Head(lines)) <= width THEN Head(lines) \o <<"\n">>
          ELSE WrapLong(Head(lines), width))
         \o WrapLines(Tail(lines), width)

\* wrapText
wrapText(text, width) == WrapLines(SplitLines(text), IF width <= 0 THEN 80 ELSE width)

RECURSIVE ColumnText(_)
\* the name of a column: its keys joined with dots
ColumnText(col) ==
    IF Len(col) <= 1 THEN col ELSE <<Head(col), ".">> \o ColumnText(Tail(col))

RECURSIVE RowDataText(_, _)
\* the columns of a row, in the order cols, each with its value
RowDataText(data, cols) ==
    IF cols = <<>> THEN <<>>
    ELSE ColumnText(Head(cols)) \o <<":", "\n">> \o wrapText(data[Head(cols)], WindowWidth - 4)
         \o <<"\n", "\n">> \o RowDataText(data, Tail(cols))

\* the element showDetailView takes from the parsed answer for a row
itemToShow(data, rowIndex) ==
    IF IsArr(data)
    THEN IF rowIndex >= 0 /\ rowIndex < Len(data.arr) THEN data.arr[rowIndex + 1] ELSE data
    ELSE data

\* the text showDetailView builds for the selected row; a range over the
\* columns of the row delivers them in the order cols.  The agent's name
\* stands for its id: two results have the same name exactly when they are
\* of the same agent.
detailContentOf(st, cols) ==
    LET row == st.tableRows[st.tableSelectedIdx + 1]
        results == getCurrentResults(st)
        found == {i \in DOMAIN results : results[i].AgentName = row.AgentName}
        originalResult == results[CHOOSE i \in found : \A j \in found : i <= j]
    IN  <<"Agent: ", row.AgentName, "\n", "Row ", IntToStr(row.RowIndex + 1), "\n", "\n">>
        \o (IF found = {} THEN RowDataText(row.Data, cols)
            ELSE IF originalResult.HasError
            THEN <<"Error:", "\n">>
                 \o wrapText(IF originalResult.RawStdError # <<>>
                             THEN originalResult.RawStdError
                             ELSE AnswerText(originalResult.AnswerJSON), WindowWidth - 4)
                 \o <<"\n">>
            ELSE IF originalResult.AnswerJSON.ok
            THEN MarshalIndent(itemToShow(originalResult.AnswerJSON.data, row.RowIndex), 0)
            ELSE originalResult.AnswerJSON.raw)

\* showDetailView
showDetailView ==
    IF rmTableSelectedIdx < 0 \/ rmTableSelectedIdx >= Len(rmTableRows)
    THEN UNCHANGED rmDetailVars
    ELSE /\ \E cols \in Perms(DOMAIN rmTableRows[rmTableSelectedIdx + 1].Data) :
                rmDetailContent' = detailContentOf(ModelState, cols)
         /\ rmShowingDetail' = TRUE

\* ensureTableVisible
ensureTableVisible(sel, offset) ==
    LET height == WindowHeight - 10
        o1 == IF sel < offset THEN sel ELSE offset
    IN  IF sel >= o1 + height THEN sel - height + 1 ELSE o1

\* case "enter", with the detail view open and without
PressEnter ==
    /\ IF rmShowingDetail
       THEN /\ rmShowingDetail' = FALSE
            /\ UNCHANGED <<rmDetailContent, treeVars>>
       ELSE IF rmViewMode = TableView
       THEN showDetailView /\ UNCHANGED treeVars
       ELSE Toggle /\ UNCHANGED rmDetailVars
    /\ UNCHANGED <<rmViewVars, rmPollVars, srvVars>>

\* case "q", "esc" with the detail view open
PressEsc ==
    /\ rmShowingDetail
    /\ rmShowingDetail' = FALSE
    /\ UNCHANGED <<rmDetailContent, treeVars, rmViewVars, rmPollVars, srvVars>>

\* case "down", "j": the detail view scrolls its own viewport
PressDown ==
    /\ IF rmShowingDetail
       THEN UNCHANGED <<rmTableSelectedIdx, rmTableScrollOffset, treeVars>>
       ELSE IF rmViewMode = TableView
       THEN /\ IF rmTableSelectedIdx < Len(rmTableRows) - 1
               THEN /\ rmTableSelectedIdx' = rmTableSelectedIdx + 1
                    /\ rmTableScrollOffset' =
                           ensureTableVisible(rmTableSelectedIdx + 1, rmTableScrollOffset)
               ELSE UNCHANGED <<rmTableSelectedIdx, rmTableScrollOffset>>
            /\ UNCHANGED treeVars
       ELSE MoveDown /\ UNCHANGED <<rmTableSelectedIdx, rmTableScrollOffset>>
    /\ UNCHANGED <<rmViewMode, rmIsTreeData, rmCurrentTab, rmShowAnomaliesOnly, rmResults,
                   rmErrors, rmAgentTrees, rmAggregateTree, rmTableRows, barActiveIdx,
                   barTreeEnabled, rmDetailVars, rmPollVars, srvVars>>

\* case "up", "k"
PressUp ==
    /\ IF rmShowingDetail
       THEN UNCHANGED <<rmTableSelectedIdx, rmTableScrollOffset, treeVars>>
       ELSE IF rmViewMode = TableView
       THEN /\ IF rmTableSelectedIdx > 0
               THEN /\ rmTableSelectedIdx' = rmTableSelectedIdx - 1
                    /\ rmTableScrollOffset' =
                           ensureTableVisible(rmTableSelectedIdx - 1, rmTableScrollOffset)
               ELSE UNCHANGED <<rmTableSelectedIdx, rmTableScrollOffset>>
            /\ UNCHANGED treeVars
       ELSE MoveUp /\ UNCHANGED <<rmTableSelectedIdx, rmTableScrollOffset>>
    /\ UNCHANGED <<rmViewMode, rmIsTreeData, rmCurrentTab, rmShowAnomaliesOnly, rmResults,
                   rmErrors, rmAgentTrees, rmAggregateTree, rmTableRows, barActiveIdx,
                   barTreeEnabled, rmDetailVars, rmPollVars, srvVars>>

\* case "tab" of the keys that the open detail view does not take
TabOutsideDetail == ~rmShowingDetail /\ PressTab

\* [1,{"k":"x"}], [{"k":"x"},1,{"k":"y"}], [1,2], [] and "x"
MixedAnswer == Valid([arr |-> <<[num |-> 1], [obj |-> ("k" :> [str |-> <<"x">>])]>>])
MixedRowsAnswer ==
    Valid([arr |-> <<[obj |-> ("k" :> [str |-> <<"x">>])], [num |-> 1],
                     [obj |-> ("k" :> [str |-> <<"y">>])]>>])
ScalarsAnswer == Valid([arr |-> <<[num |-> 1], [num |-> 2]>>])
EmptyArrayAnswer == Valid([arr |-> <<>>])
StringAnswer == Valid([str |-> <<"x">>])

\* what the agents can have reported when the table is looked at row by row
DetailAnswers ==
    {FlatAnswer, NestedArrayAnswer, SelfRefRowsAnswer, MixedAnswer, MixedRowsAnswer,
     ScalarsAnswer, EmptyArrayAnswer, ScalarAnswer, StringAnswer, Malformed(<<"x">>)}
DetailInputs ==
    {<<>>} \cup {<<ResultOf(1, a)>> : a \in DetailAnswers}
    \cup {<<ResultOf(1, a), r>> : a \in DetailAnswers,
                                  r \in {ResultOf(2, SelfRefRowsAnswer), ErrorOf(2, <<"x">>),
                                         ErrorOf(2, <<>>)}}

\* the detail view that nobody has opened
DetailClosed == rmShowingDetail = FALSE /\ rmDetailContent = <<>>

\* the state after Init of a model constructed for the table view, when
\* the execution and its status (Completed) have been delivered and the
\* results fetch has got its answer, which waits to be delivered
ResultsArriving ==
    /\ ConstructedWith(TableView, FALSE)
    /\ DetailClosed
    /\ rmStatus = "Completed"
    /\ \E first \in DetailInputs :
           /\ rmInFlight = {[fetchResults(3) EXCEPT !.served = TRUE, !.results = first]}
           /\ srvResults = first
    /\ rmIssued = 3
    /\ rmShownFetch = 0
    /\ srvState = "Completed"

\* the watch command and the paginated fetch that no program runs
WatchIdle ==
    /\ watchPc = "idle"
    /\ lastReceived = -1
    /\ watchFetched = "none"
    /\ watchDrawn = 0
    /\ watchSummaries = 0
    /\ sigChan = 0
    /\ watchTicks = 0
    /\ watchSrvState = "Pending"
    /\ watchSrvReceived = 0
PageIdle ==
    /\ pagePc = "idle"
    /\ page = 1
    /\ allResults = <<>>
    /\ pageReturn = [results |-> <<>>, err |-> FALSE]
    /\ pageRequests = 0
    /\ pageTotal = 0
CliIdle == DetailClosed /\ WatchIdle /\ PageIdle

(***************************************************************************)
(* The watch command: the loop of runWatch over the signal channel and the *)
(* ticker, against an execution that proceeds on the server.               *)
(***************************************************************************)
\* runWatch has fetched the execution, registered the signal channel and
\* started the ticker; the execution is in any state
WatchInit ==
    /\ watchPc = "loop"
    /\ lastReceived = -1
    /\ watchFetched = "none"
    /\ watchDrawn = 0
    /\ watchSummaries = 0
    /\ sigChan = 0
    /\ watchTicks = 0
    /\ watchSrvState \in {"Pending", "Running", "Completed", "Failed"}
    /\ watchSrvReceived \in
           IF watchSrvState = "Pending" THEN {0} ELSE 0..MaxReceived

\* an agent's result reaches the server
WatchAgentReports ==
    /\ watchSrvState \in {"Pending", "Running"}
    /\ watchSrvReceived < MaxReceived
    /\ watchSrvReceived' = watchSrvReceived + 1
    /\ watchSrvState' = "Running"
    /\ UNCHANGED <<watchPc, lastReceived, watchFetched, watchDrawn, watchSummaries,
                   sigChan, watchTicks>>

\* the execution ends on the server
WatchServerFinishes ==
    /\ watchSrvState \in {"Pending", "Running"}
    /\ watchSrvState' \in {"Completed", "Failed"}
    /\ UNCHANGED <<watchPc, lastReceived, watchFetched, watchDrawn, watchSummaries,
                   sigChan, watchTicks, watchSrvReceived>>

\* os.Interrupt or SIGTERM reaches the process: signal.Notify puts it into
\* the channel, which holds one signal
Signal ==
    /\ watchPc = "loop"
    /\ sigChan' = 1
    /\ UNCHANGED <<watchPc, lastReceived, watchFetched, watchDrawn, watchSummaries,
                   watchTicks, watchSrvState, watchSrvReceived>>

\* case <-sigChan
WatchInterrupted ==
    /\ watchPc = "loop"
    /\ sigChan = 1
    /\ sigChan' = 0
    /\ watchPc' = "stopped"
    /\ UNCHANGED <<lastReceived, watchFetched, watchDrawn, watchSummaries, watchTicks,
                   watchSrvState, watchSrvReceived>>

\* case <-ticker.C that gives up when the status fetch fails
WatchTick_ReturnOnError ==
    /\ watchPc = "loop"
    /\ watchTicks < MaxWatchTicks
    /\ watchTicks' = watchTicks + 1
    /\ \E err \in BOOLEAN :
           IF err
           THEN /\ watchFetched' = "error"
                /\ watchPc' = "done"
                /\ UNCHANGED <<lastReceived, watchDrawn, watchSummaries>>
           ELSE /\ watchFetched' = watchSrvState
                /\ lastReceived' = watchSrvReceived
                /\ watchDrawn' = IF watchSrvReceived # lastReceived THEN watchDrawn + 1
                                 ELSE watchDrawn
                /\ IF watchSrvState = "Completed" \/ watchSrvState = "Failed"
                   THEN watchSummaries' = watchSummaries + 1 /\ watchPc' = "done"
                   ELSE UNCHANGED <<watchSummaries, watchPc>>
    /\ UNCHANGED <<sigChan, watchSrvState, watchSrvReceived>>

\* case <-ticker.C: the status fetch, the redraw and the check for the end
WatchTick ==
    /\ watchPc = "loop"
    /\ watchTicks < MaxWatchTicks
    /\ watchTicks' = watchTicks + 1
    /\ \E err \in BOOLEAN :
           IF err
           THEN /\ watchFetched' = "error"
                /\ UNCHANGED <<lastReceived, watchDrawn, watchSummaries, watchPc>>
           ELSE /\ watchFetched' = watchSrvState
                /\ lastReceived' = watchSrvReceived
                /\ watchDrawn' = IF watchSrvReceived # lastReceived THEN watchDrawn + 1
                                 ELSE watchDrawn
                /\ IF watchSrvState = "Completed" \/ watchSrvState = "Failed"
                   THEN watchSummaries' = watchSummaries + 1 /\ watchPc' = "done"
                   ELSE UNCHANGED <<watchSummaries, watchPc>>
    /\ UNCHANGED <<sigChan, watchSrvState, watchSrvReceived>>

(***************************************************************************)
(* Client.GetAllExecutionResults against a server that holds pageTotal     *)
(* results, numbered 1..pageTotal, and serves them in pages.               *)
(***************************************************************************)
pageSize == 100

\* the page the server answers to GetExecutionResults(page, size): Results,
\* with TotalCount = total
ServerPage(p, size, total) ==
    LET first == (p - 1) * size + 1
        last == IF p * size < total THEN p * size ELSE total
    IN  [i \in 1..(IF last >= first THEN last - first + 1 ELSE 0) |-> first + i - 1]

\* the call has been made
PageInit ==
    /\ pagePc = "loop"
    /\ page = 1
    /\ allResults = <<>>
    /\ pageReturn = [results |-> <<>>, err |-> FALSE]
    /\ pageRequests = 0
    /\ pageTotal \in 0..MaxServerResults

\* the loop body that asks for the same page again
GetPage_SamePage ==
    /\ pagePc = "loop"
    /\ pageRequests' = pageRequests + 1
    /\ \E err \in BOOLEAN :
           IF err
           THEN /\ pageReturn' = [results |-> <<>>, err |-> TRUE]
                /\ pagePc' = "returned"
                /\ UNCHANGED <<page, allResults>>
           ELSE LET results == ServerPage(page, pageSize, pageTotal)
                    all == allResults \o results
                IN  /\ allResults' = all
                    /\ IF Len(all) >= pageTotal \/ Len(results) < pageSize
                       THEN /\ pageReturn' = [results |-> all, err |-> FALSE]
                            /\ pagePc' = "returned"
                            /\ UNCHANGED page
                       ELSE UNCHANGED <<page, pageReturn, pagePc>>
    /\ UNCHANGED pageTotal

\* one turn of the loop: a page request, and the return or the next page
GetPage ==
    /\ pagePc = "loop"
    /\ pageRequests' = pageRequests + 1
    /\ \E err \in BOOLEAN :
           IF err
           THEN /\ pageReturn' = [results |-> <<>>, err |-> TRUE]
                /\ pagePc' = "returned"
                /\ UNCHANGED <<page, allResults>>
           ELSE LET results == ServerPage(page, pageSize, pageTotal)
                    all == allResults \o results
                IN  /\ allResults' = all
                    /\ IF Len(all) >= pageTotal \/ Len(results) < pageSize
                       THEN /\ pageReturn' = [results |-> all, err |-> FALSE]
                            /\ pagePc' = "returned"
                            /\ UNCHANGED page
                       ELSE /\ page' = page + 1
                            /\ UNCHANGED <<pageReturn, pagePc>>
    /\ UNCHANGED pageTotal

(***************************************************************************)
(* Specifications                                                          *)
(***************************************************************************)
TreeNext ==
    \/ SetAgents /\ UNCHANGED <<aggVars, cmpVars, detVars, rmVars, cliVars>>
    \/ SetViewportHeight /\ UNCHANGED <<aggVars, cmpVars, detVars, rmVars, cliVars>>
    \/ MoveUp /\ UNCHANGED <<aggVars, cmpVars, detVars, rmVars, cliVars>>
    \/ MoveDown /\ UNCHANGED <<aggVars, cmpVars, detVars, rmVars, cliVars>>
    \/ Toggle /\ UNCHANGED <<aggVars, cmpVars, detVars, rmVars, cliVars>>
    \/ Expand /\ UNCHANGED <<aggVars, cmpVars, detVars, rmVars, cliVars>>
    \/ Collapse /\ UNCHANGED <<aggVars, cmpVars, detVars, rmVars, cliVars>>
    \/ ExpandAll /\ UNCHANGED <<aggVars, cmpVars, detVars, rmVars, cliVars>>
    \/ CollapseAll /\ UNCHANGED <<aggVars, cmpVars, detVars, rmVars, cliVars>>

\* the tree navigator under every sequence of its operations
TreeStart == TreeInit /\ AggIdle /\ CompareIdle /\ DetIdle /\ ResultsIdle /\ CliIdle
SpecTree == TreeStart /\ [][TreeNext]_vars

AggNext ==
    \/ CollectPaths /\ UNCHANGED <<treeVars, cmpVars, detVars, rmVars, cliVars>>
    \/ BuildAggregated /\ UNCHANGED <<treeVars, cmpVars, detVars, rmVars, cliVars>>

\* collectPaths and buildAggregatedNodes applied to every enumerated input
AggStart == AggInit /\ TreeInit /\ CompareIdle /\ DetIdle /\ ResultsIdle /\ CliIdle
SpecAgg == AggStart /\ [][AggNext]_vars

CompareNext ==
    \/ RecvBaseline /\ UNCHANGED <<treeVars, aggVars, detVars, rmVars, cliVars>>
    \/ RecvCurrent /\ UNCHANGED <<treeVars, aggVars, detVars, rmVars, cliVars>>
    \/ KeyD /\ UNCHANGED <<treeVars, aggVars, detVars, rmVars, cliVars>>
    \/ KeyA /\ UNCHANGED <<treeVars, aggVars, detVars, rmVars, cliVars>>
    \/ KeyUp /\ UNCHANGED <<treeVars, aggVars, detVars, rmVars, cliVars>>
    \/ KeyDown /\ UNCHANGED <<treeVars, aggVars, detVars, rmVars, cliVars>>

CompareStart == CompareInit /\ TreeInit /\ AggIdle /\ DetIdle /\ ResultsIdle /\ CliIdle
SpecCompare == CompareStart /\ [][CompareNext]_vars

DetNext ==
    \/ DetectSelfReferential /\ UNCHANGED <<treeVars, aggVars, cmpVars, rmVars, cliVars>>

\* the polling of the results model against the server
PollNext ==
    \/ AgentReports /\ UNCHANGED <<treeVars, aggVars, cmpVars, detVars, cliVars>>
    \/ ServerFinishes /\ UNCHANGED <<treeVars, aggVars, cmpVars, detVars, cliVars>>
    \/ Serve /\ UNCHANGED <<treeVars, aggVars, cmpVars, detVars, cliVars>>
    \/ RecvExecution /\ UNCHANGED <<treeVars, aggVars, cmpVars, detVars, cliVars>>
    \/ RecvStatus /\ UNCHANGED <<treeVars, aggVars, cmpVars, detVars, cliVars>>
    \/ RecvTick /\ UNCHANGED <<treeVars, aggVars, cmpVars, detVars, cliVars>>
    \/ RecvResults /\ UNCHANGED <<aggVars, cmpVars, detVars, cliVars>>

PollStart == ResultsInit /\ TreeInit /\ AggIdle /\ CompareIdle /\ DetIdle /\ CliIdle
SpecPoll == PollStart /\ [][PollNext]_vars

\* the results model between two arrivals of results, under the view keys
ResultsNext ==
    \/ RecvResults /\ UNCHANGED <<aggVars, cmpVars, detVars, cliVars>>
    \/ PressTab /\ UNCHANGED <<aggVars, cmpVars, detVars, cliVars>>
    \/ Press1 /\ UNCHANGED <<aggVars, cmpVars, detVars, cliVars>>
    \/ Press2 /\ UNCHANGED <<aggVars, cmpVars, detVars, cliVars>>
    \/ Press3 /\ UNCHANGED <<aggVars, cmpVars, detVars, cliVars>>
    \/ PressA /\ UNCHANGED <<aggVars, cmpVars, detVars, cliVars>>

ResultsStart == ResultsRefreshing /\ TreeInit /\ AggIdle /\ CompareIdle /\ DetIdle /\ CliIdle
SpecResults == ResultsStart /\ [][ResultsNext]_vars

\* the table of the results model, row by row, and the detail view
DetailNext ==
    \/ RecvResults /\ UNCHANGED <<aggVars, cmpVars, detVars, cliVars>>
    \/ TabOutsideDetail /\ UNCHANGED <<aggVars, cmpVars, detVars, cliVars>>
    \/ PressDown /\ UNCHANGED <<aggVars, cmpVars, detVars, watchVars, pageVars>>
    \/ PressUp /\ UNCHANGED <<aggVars, cmpVars, detVars, watchVars, pageVars>>
    \/ PressEnter /\ UNCHANGED <<aggVars, cmpVars, detVars, watchVars, pageVars>>
    \/ PressEsc /\ UNCHANGED <<aggVars, cmpVars, detVars, watchVars, pageVars>>

DetailStart ==
    ResultsArriving /\ TreeInit /\ AggIdle /\ CompareIdle /\ DetIdle /\ WatchIdle /\ PageIdle
SpecDetail == DetailStart /\ [][DetailNext]_vars

\* the watch command under signals, ticks and the progress of the execution
WatchNext ==
    \/ WatchAgentReports /\ UNCHANGED <<treeVars, aggVars, cmpVars, detVars, rmVars,
                                         rmDetailVars, pageVars>>
    \/ WatchServerFinishes /\ UNCHANGED <<treeVars, aggVars, cmpVars, detVars, rmVars,
                                           rmDetailVars, pageVars>>
    \/ Signal /\ UNCHANGED <<treeVars, aggVars, cmpVars, detVars, rmVars, rmDetailVars,
                              pageVars>>
    \/ WatchInterrupted /\ UNCHANGED <<treeVars, aggVars, cmpVars, detVars, rmVars,
                                        rmDetailVars, pageVars>>
    \/ WatchTick /\ UNCHANGED <<treeVars, aggVars, cmpVars, detVars, rmVars, rmDetailVars,
                                 pageVars>>

WatchStart ==
    /\ WatchInit /\ TreeInit /\ AggIdle /\ CompareIdle /\ DetIdle /\ ResultsIdle
    /\ DetailClosed /\ PageIdle
SpecWatch == WatchStart /\ [][WatchNext]_vars

\* the paginated fetch; the loop goes on as long as it has not returned
PageNext ==
    \/ GetPage /\ UNCHANGED <<treeVars, aggVars, cmpVars, detVars, rmVars, rmDetailVars,
                               watchVars>>

PageStart ==
    /\ PageInit /\ TreeInit /\ AggIdle /\ CompareIdle /\ DetIdle /\ ResultsIdle
    /\ DetailClosed /\ WatchIdle
SpecPage == PageStart /\ [][PageNext]_vars /\ WF_vars(PageNext)

DetStart == DetInit /\ TreeInit /\ AggIdle /\ CompareIdle /\ ResultsIdle /\ CliIdle
SpecDet == DetStart /\ [][DetNext]_vars

(***************************************************************************)
(* Properties of the tree navigator                                        *)
(***************************************************************************)
IsPrefix(p, q) == Len(p) <= Len(q) /\ SubSeq(q, 1, Len(p)) = p

\* C1: the selection index is inside the flat list whenever the list is
\* non-empty, and is 0 when the list is empty.
C1_SelectionInRange ==
    IF Len(flatNodes) = 0
    THEN selectedIdx = 0
    ELSE 0 <= selectedIdx /\ selectedIdx <= Len(flatNodes) - 1

\* the cursor sits on the last row of a list that hides rows of a collapsed agent
C1_Witness ==
    /\ selectedIdx >= 1
    /\ selectedIdx = Len(flatNodes) - 1
    /\ \E a \in DOMAIN agents : ~agents[a].Expanded /\ agents[a].Roots # <<>>

\* C2: every node row of the flat list belongs to an expanded agent and has
\* only expanded ancestors.
C2_NoRowBelowCollapsed ==
    \A i \in DOMAIN flatNodes :
        LET fn == flatNodes[i]
        IN  ~fn.isAgent =>
              /\ agents[fn.agent].Expanded
              /\ \A k \in 1..(Len(fn.node) - 1) :
                    NodeAt(agents[fn.agent].Roots, SubSeq(fn.node, 1, k)).Expanded

\* a nested row is shown while a shown node with children is collapsed
C2_Witness ==
    /\ \E i \in DOMAIN flatNodes : ~flatNodes[i].isAgent /\ Len(flatNodes[i].node) >= 2
    /\ \E i \in DOMAIN flatNodes :
          /\ ~flatNodes[i].isAgent
          /\ LET n == NodeAt(agents[flatNodes[i].agent].Roots, flatNodes[i].node)
             IN  Len(n.Children) > 0 /\ ~n.Expanded


(***************************************************************************)
(* Properties of the aggregator                                            *)
(***************************************************************************)
RECURSIVE NodePtrs(_)
\* the pointers to all nodes of a forest
NodePtrs(nodes) ==
    UNION { {<<i>>} \cup { <<i>> \o q : q \in NodePtrs(nodes[i].Children) } :
            i \in DOMAIN nodes }

RECURSIVE LabelPath(_, _)
\* the labels from the root to the node at ptr, each preceded by "/"
LabelPath(nodes, ptr) ==
    <<"/">> \o nodes[ptr[1]].Label
    \o (IF Len(ptr) = 1 THEN <<>> ELSE LabelPath(nodes[ptr[1]].Children, Tail(ptr)))

NodesAt(tree, p) == { ptr \in NodePtrs(tree.Roots) : LabelPath(tree.Roots, ptr) = p }

RECURSIVE SumOver(_, _)
SumOver(f, S) ==
    IF S = {} THEN 0
    ELSE LET x == CHOOSE y \in S : TRUE IN f[x] + SumOver(f, S \ {x})

VisitsAt(p) ==
    SumOver([i \in DOMAIN aggTrees |-> Cardinality(NodesAt(aggTrees[i], p))],
            DOMAIN aggTrees)
AgentsAt(p) == { i \in DOMAIN aggTrees : NodesAt(aggTrees[i], p) # {} }
AllLabelPaths ==
    UNION { { LabelPath(aggTrees[i].Roots, ptr) : ptr \in NodePtrs(aggTrees[i].Roots) } :
            i \in DOMAIN aggTrees }

RECURSIVE AllNodes(_)
AllNodes(nodes) ==
    UNION { {nodes[i]} \cup AllNodes(nodes[i].Children) : i \in DOMAIN nodes }

Max(a, b) == IF a >= b THEN a ELSE b
LastSlash(p) == CHOOSE i \in DOMAIN p : p[i] = "/" /\ \A j \in DOMAIN p : j > i => p[j] # "/"
\* the part of a path before its last "/"
ParentPath(p) == SubSeq(p, 1, LastSlash(p) - 1)
EmittedIDs == { n.ID : n \in AllNodes(aggregateTree) }

C5_CountIsDistinctAgents ==
    (aggPc = "built" /\ aggTotal = Len(aggTrees)) =>
      \A n \in AllNodes(aggregateTree) :
          /\ n.Count = Cardinality(AgentsAt(n.ID))
          /\ n.Count <= n.TotalCount

\* C6: with anomaliesOnly set, a path has a node exactly when its count is at
\* most the threshold and its parent path is empty or has a node; every node
\* is flagged as an anomaly.
C6_AnomaliesOnlyPruning ==
    (aggPc = "built" /\ aggAnomaliesOnly) =>
      /\ EmittedIDs \subseteq DOMAIN pathCounts
      /\ CountNodes(aggregateTree) = Cardinality(EmittedIDs)
      /\ \A p \in DOMAIN pathCounts :
            p \in EmittedIDs <=>
              /\ pathCounts[p].count <= Max(1, aggTotal \div 10)
              /\ ParentPath(p) = <<>> \/ ParentPath(p) \in EmittedIDs
      /\ \A n \in AllNodes(aggregateTree) : n.IsAnomaly
      /\ (aggTrees = TwentyAgentScenario /\ aggTotal = 20) =>
            /\ <<"/", "rare">> \in EmittedIDs
            /\ <<"/", "common">> \notin EmittedIDs
            /\ <<"/", "common", "/", "child">> \notin EmittedIDs

\* an anomalous path is dropped because its parent is no anomaly
C6_Witness ==
    /\ aggPc = "built"
    /\ aggAnomaliesOnly
    /\ \E p \in DOMAIN pathCounts :
          /\ pathCounts[p].count <= Max(1, aggTotal \div 10)
          /\ ParentPath(p) \in DOMAIN pathCounts
          /\ pathCounts[ParentPath(p)].count > Max(1, aggTotal \div 10)
          /\ p \notin EmittedIDs

\* C21 as stated: with anomaliesOnly set, whether a path has a node depends on
\* that path's own count only: it has one exactly when its count is at most
\* the threshold, also below a path that has none.
C21_OwnCountOnly ==
    (aggPc = "built" /\ aggAnomaliesOnly) =>
      \A p \in DOMAIN pathCounts :
          p \in EmittedIDs <=> pathCounts[p].count <= Max(1, aggTotal \div 10)

\* C21, amended: with anomaliesOnly set, the children of a path are looked at
\* only when the path itself was kept: no path below a dropped path has a
\* node, whatever its count, and below the root or a kept path the paths with
\* a node are those whose count is at most the threshold.
C21_ChildrenOfKeptOnly ==
    (aggPc = "built" /\ aggAnomaliesOnly) =>
      \A p \in DOMAIN pathCounts :
          LET parent == ParentPath(p)
              kept == parent = <<>> \/ parent \in EmittedIDs
          IN  /\ ~kept => p \notin EmittedIDs
              /\ kept => (p \in EmittedIDs
                            <=> pathCounts[p].count <= Max(1, aggTotal \div 10))

\* twenty agents, anomalies only: "common" (ten agents) is dropped and so is
\* its child, which one agent reports; "rare" is kept
C21_Witness ==
    /\ aggPc = "built"
    /\ aggAnomaliesOnly
    /\ aggTrees = TwentyAgentScenario
    /\ aggTotal = 20
    /\ pathCounts[<<"/", "common", "/", "child">>].count = 1
    /\ <<"/", "common", "/", "child">> \notin EmittedIDs
    /\ <<"/", "rare">> \in EmittedIDs

\* C23 as stated: a node of the aggregated tree is flagged as an anomaly only
\* if it is found on fewer than 10% of the agents: count * 10 < totalAgents.
C23_AnomalyBelowTenPercent ==
    aggPc = "built" =>
      \A n \in AllNodes(aggregateTree) :
          n.IsAnomaly => n.Count * 10 < n.TotalCount

\* C27 as stated: with anomaliesOnly off, the aggregated tree holds exactly
\* one node for every collected path, attached under the node of the path of
\* its parent node in the agent trees, whatever the labels (also labels that
\* contain "/"); so it has as many nodes as there are collected paths.
C27_OneNodePerPath ==
    (aggPc = "built" /\ ~aggAnomaliesOnly) =>
      /\ CountNodes(aggregateTree) = Cardinality(DOMAIN pathCounts)
      /\ \A p \in DOMAIN pathCounts :
            Cardinality({ ptr \in NodePtrs(aggregateTree) :
                            NodeAt(aggregateTree, ptr).ID = p }) = 1
      /\ \A i \in DOMAIN aggTrees : \A ptr \in NodePtrs(aggTrees[i].Roots) :
            \E q \in NodePtrs(aggregateTree) :
                /\ NodeAt(aggregateTree, q).ID = LabelPath(aggTrees[i].Roots, ptr)
                /\ Len(q) = Len(ptr)
                /\ Len(ptr) > 1 =>
                      NodeAt(aggregateTree, SubSeq(q, 1, Len(q) - 1)).ID
                      = LabelPath(aggTrees[i].Roots, SubSeq(ptr, 1, Len(ptr) - 1))

\* C28 as stated: the aggregated tree does not depend on the order in which
\* the path map is iterated: every run of buildAggregatedNodes on the
\* collected paths gives the siblings of every level in the same order, also
\* siblings with equal count.
C28_SiblingOrderDeterministic ==
    aggPc = "built" =>
      \A tieOrder \in Perms(DOMAIN pathCounts) :
          buildAggregatedNodes(pathCounts, <<>>, aggTotal, aggAnomaliesOnly, tieOrder)
          = aggregateTree

\* no two siblings of an agent tree have the same label
RECURSIVE DistinctSiblings(_)
DistinctSiblings(nodes) ==
    /\ \A i, j \in DOMAIN nodes : nodes[i].Label = nodes[j].Label => i = j
    /\ \A i \in DOMAIN nodes : DistinctSiblings(nodes[i].Children)

\* the agent trees C36 is about: siblings have distinct labels and no label
\* holds a "/"
PlainAgentTrees ==
    \A i \in DOMAIN aggTrees :
        /\ DistinctSiblings(aggTrees[i].Roots)
        /\ \A n \in AllNodes(aggTrees[i].Roots) : ~ContainsSlash(n.Label)

\* C36: for agent trees without equal sibling labels and without "/" in a
\* label, aggregated without the anomalies filter over all of them, every
\* node's Count is at most the Count of its parent and at most TotalCount,
\* and it is the number of distinct agents whose tree holds the path.
C36_CountsDecreaseDownwards ==
    (/\ aggPc = "built" /\ ~aggAnomaliesOnly /\ aggTotal = Len(aggTrees)
     /\ PlainAgentTrees) =>
      \A ptr \in NodePtrs(aggregateTree) :
          LET n == NodeAt(aggregateTree, ptr)
          IN  /\ n.Count <= n.TotalCount
              /\ n.Count = Cardinality(AgentsAt(n.ID))
              /\ n.Count = Cardinality(Range(n.AgentNames))
              /\ Len(ptr) > 1 =>
                    n.Count <= NodeAt(aggregateTree, SubSeq(ptr, 1, Len(ptr) - 1)).Count

\* three such agents: a child that fewer agents hold than hold its parent
C36_Witness ==
    /\ aggPc = "built" /\ ~aggAnomaliesOnly /\ aggTotal = Len(aggTrees)
    /\ PlainAgentTrees
    /\ Len(aggTrees) = 3
    /\ \E ptr \in NodePtrs(aggregateTree) :
          /\ Len(ptr) = 2
          /\ NodeAt(aggregateTree, ptr).Count = 1
          /\ NodeAt(aggregateTree, SubSeq(ptr, 1, 1)).Count = 3

(***************************************************************************)
(* Properties of the baseline differ                                       *)
(***************************************************************************)
\* the paths of a result collection
PathSet(results) ==
    UNION { Range(extractPaths(results[i].AnswerJSON, JsonKeySeq)) : i \in DOMAIN results }

ItemsOf(path, type) ==
    { i \in DOMAIN diffs : diffs[i].Path = path /\ diffs[i].Type = type }

C8_SelfCompareEmpty ==
    (dataReady = 2 /\ currentResults \in Reordered(baselineResults))
        => /\ newCount = 0
           /\ removedCount = 0
           /\ diffs = <<>>

C8_Witness ==
    /\ dataReady = 2
    /\ Len(baselineResults) = 2
    /\ currentResults # baselineResults
    /\ currentResults \in Reordered(baselineResults)
    /\ \E i \in DOMAIN baselineResults :
          /\ baselineResults[i].AnswerJSON.ok
          /\ IsObj(baselineResults[i].AnswerJSON.data)
          /\ Cardinality(DOMAIN baselineResults[i].AnswerJSON.data.obj) = 2
    /\ diffs = <<>>

RECURSIVE GainSites(_, _, _, _)
\* where y is x but for one object that gained one key: the path of the key,
\* its value, and whether the gain changed the path of an array element
\* around it
GainSites(x, y, prefix, moved) ==
    IF IsObj(x) /\ IsObj(y)
    THEN LET added == DOMAIN y.obj \ DOMAIN x.obj
             changed == { k \in DOMAIN x.obj \cap DOMAIN y.obj : x.obj[k] # y.obj[k] }
         IN  IF DOMAIN x.obj \subseteq DOMAIN y.obj /\ Cardinality(added) = 1
                /\ changed = {}
             THEN { [path |-> prefix \o <<"/", k>>, value |-> y.obj[k], moved |-> moved] :
                      k \in added }
             ELSE IF DOMAIN x.obj = DOMAIN y.obj /\ Cardinality(changed) = 1
             THEN UNION { GainSites(x.obj[k], y.obj[k], prefix \o <<"/", k>>, moved) :
                          k \in changed }
             ELSE {}
    ELSE IF IsArr(x) /\ IsArr(y) /\ Len(x.arr) = Len(y.arr)
    THEN LET changed == { i \in DOMAIN x.arr : x.arr[i] # y.arr[i] }
         IN  IF Cardinality(changed) = 1
             THEN UNION { GainSites(x.arr[i], y.arr[i], itemPath(y.arr[i], i - 1, prefix),
                                    moved \/ itemPath(x.arr[i], i - 1, prefix)
                                             # itemPath(y.arr[i], i - 1, prefix)) :
                          i \in changed }
             ELSE {}
    ELSE {}

ResultGainSites(b, c) ==
    IF Len(b) = Len(c) /\ \A i \in DOMAIN b : b[i].AgentName = c[i].AgentName
    THEN LET changed == { i \in DOMAIN b : b[i].AnswerJSON # c[i].AnswerJSON }
         IN  IF Cardinality(changed) = 1
             THEN UNION { IF b[i].AnswerJSON.ok /\ c[i].AnswerJSON.ok
                          THEN GainSites(b[i].AnswerJSON.data, c[i].AnswerJSON.data,
                                         <<>>, FALSE)
                          ELSE {} : i \in changed }
             ELSE {}
    ELSE {}

\* C9 as stated: when the current collection is the baseline but for one
\* object that gained one key, of any value type, the diff list is one New
\* item with the path of that key, and there is no Removed item.
C9_OneNewItem ==
    dataReady = 2 =>
        \A s \in ResultGainSites(baselineResults, currentResults) :
            /\ newCount = 1
            /\ removedCount = 0
            /\ Len(diffs) = 1
            /\ diffs[1].Type = DiffNew
            /\ diffs[1].Path = s.path

\* the paths at and below a gained key
GainedPaths(s) ==
    {s.path}
    \cup (IF IsObj(s.value) \/ IsArr(s.value)
          THEN Range(extractPathsRecursive(s.value, s.path, JsonKeySeq))
          ELSE IF IsStr(s.value)
          THEN {s.path \o <<"=">> \o s.value.str}
          ELSE {s.path \o <<"=", IntToStr(s.value.num)>>})

\* C9, amended: when the current collection is the baseline but for one
\* object that gained one key, and the gain changes the path of no array
\* element around it, there is no Removed item, and the New items are exactly
\* the paths at and below the path of that key that no baseline result has:
\* the path of the key and, for a scalar value, the leaf path
\* "<path>=<value>", for an object or an array the paths of what it holds.
C9_GainedKeyItems ==
    dataReady = 2 =>
        \A s \in ResultGainSites(baselineResults, currentResults) :
            ~s.moved =>
                LET fresh == GainedPaths(s) \ PathSet(baselineResults)
                IN  /\ removedCount = 0
                    /\ newCount = Cardinality(fresh)
                    /\ Len(diffs) = Cardinality(fresh)
                    /\ \A i \in DOMAIN diffs :
                         diffs[i].Type = DiffNew /\ diffs[i].Path \in fresh
                    /\ \A p \in fresh : ItemsOf(p, DiffNew) # {}

C9_Witness ==
    /\ dataReady = 2
    /\ \E s \in ResultGainSites(baselineResults, currentResults) :
          /\ ~s.moved
          /\ IsNum(s.value)
          /\ newCount = 2
          /\ removedCount = 0
          /\ diffs[1].Path = s.path
          /\ diffs[2].Path = s.path \o <<"=", "1">>

\* C10 as stated: a path that both the baseline and the current results have
\* is absent from the visible list in the mode "diffs only" and is an
\* Unchanged item of the visible list once key "a" has set the mode "show
\* all".
C10_UnchangedShown ==
    dataReady = 2 =>
        LET visible == getVisibleDiffs(diffs, showDiffsOnly)
        IN  \A p \in PathSet(baselineResults) \cap PathSet(currentResults) :
              IF showDiffsOnly
              THEN \A i \in DOMAIN visible : visible[i].Path # p
              ELSE \E i \in DOMAIN visible :
                      visible[i].Path = p /\ visible[i].Type = DiffUnchanged

(***************************************************************************)
(* Properties of the compare model                                         *)
(***************************************************************************)
\* the fetches that have been delivered without an error
ArrivedOk ==
    (IF ~baselineFetch.pending /\ ~baselineFetch.err THEN 1 ELSE 0)
    + (IF ~currentFetch.pending /\ ~currentFetch.err THEN 1 ELSE 0)

\* C11: the two fetch completions arrive in either order; dataReady counts
\* the completions without error; until both have arrived the diff list is
\* empty, all counts are 0 and loading is true; the step that ends loading
\* (the run of computeDiffs) is the step that delivers the second of them,
\* so it happens once, and afterwards diffs and counts are never written
\* again.
C11_DiffsOnceBothArrived ==
    /\ [](/\ dataReady = ArrivedOk
          /\ loading = (dataReady < 2)
          /\ dataReady < 2 => /\ diffs = <<>>
                              /\ newCount = 0
                              /\ removedCount = 0
                              /\ modifiedCount = 0)
    /\ [][/\ loading' # loading => loading /\ dataReady = 1 /\ dataReady' = 2
          /\ ~loading => UNCHANGED <<diffs, newCount, removedCount, modifiedCount,
                                      dataReady>>]_vars

\* the current results have arrived first and hold paths
C11_Witness ==
    /\ baselineFetch.pending
    /\ ~currentFetch.pending
    /\ ~currentFetch.err
    /\ dataReady = 1
    /\ PathSet(currentResults) # {}
    /\ loading

\* C35 as stated: once both fetch completions, of the baseline and of the
\* current results, have been delivered, with or without an error, the
\* compare model is no longer loading.
C35_LoadingEndsWithBothCompletions ==
    (~baselineFetch.pending /\ ~currentFetch.pending) => ~loading

(***************************************************************************)
(* Further properties of the tree navigator                                *)
(***************************************************************************)
\* the Expanded flag of the agent header or node that row refers to
RowFlag(ags, row) ==
    IF row.isAgent THEN ags[row.agent].Expanded
    ELSE NodeAt(ags[row.agent].Roots, row.node).Expanded

\* C18 as stated: Toggle flips the Expanded flag of the row under the cursor,
\* be it an agent header, a node with children or a node without children.
C18_ToggleFlips ==
    selectedIdx < Len(flatNodes) =>
        ENABLED (/\ Toggle
                 /\ UNCHANGED <<aggVars, cmpVars, detVars, rmVars, cliVars>>
                 /\ RowFlag(agents', Selected) = ~RowFlag(agents, Selected))

\* Expand (Collapse) would change nothing
ExpandIsNoOp == ENABLED (Expand /\ UNCHANGED vars)
CollapseIsNoOp == ENABLED (Collapse /\ UNCHANGED vars)

\* C19: after a step of Expand another Expand changes nothing, after a step
\* of Collapse another Collapse changes nothing, so that two in a row give
\* the state that one gives (flags, flat list, cursor, scroll offset); and
\* Expand (Collapse) changes nothing when the flag of the row under the
\* cursor is already true (false).
C19_ExpandCollapseIdempotent ==
    /\ [][/\ Expand => ExpandIsNoOp'
          /\ Collapse => CollapseIsNoOp']_vars
    /\ []((selectedIdx < Len(flatNodes) /\ RowFlag(agents, Selected)) => ExpandIsNoOp)
    /\ []((selectedIdx < Len(flatNodes) /\ ~RowFlag(agents, Selected)) => CollapseIsNoOp)

\* a node with children, shown among other rows, has just been expanded or
\* collapsed: the cursor is on it and rows follow it
C19_Witness ==
    /\ selectedIdx < Len(flatNodes) - 1
    /\ selectedIdx >= 1
    /\ ~Selected.isAgent
    /\ Len(SelectedNode.Children) > 0
    /\ SelectedNode.Expanded
    /\ ExpandIsNoOp

\* C20 as stated: after every operation on a flat list that is not empty the
\* cursor row lies inside the visible window.
C20_CursorInWindow ==
    Len(flatNodes) > 0 =>
        /\ viewportStart <= selectedIdx
        /\ selectedIdx < viewportStart + viewportHeight

\* a step of the tree navigator: nothing outside the TreeView changes
TreeViewOnly == UNCHANGED <<aggVars, cmpVars, detVars, rmVars, cliVars>>

RECURSIVE PreorderPtrs(_, _, _)
\* the pointers to all nodes below nodes[i..], parents before their children
\* and siblings in their order; ptr is the pointer to the parent
PreorderPtrs(nodes, ptr, i) ==
    IF i > Len(nodes) THEN <<>>
    ELSE <<Append(ptr, i)>> \o PreorderPtrs(nodes[i].Children, Append(ptr, i), 1)
         \o PreorderPtrs(nodes, ptr, i + 1)

RECURSIVE WholeForest(_, _)
\* the header of each agent from i on, followed by all its nodes in pre-order
WholeForest(ags, i) ==
    IF i > Len(ags) THEN <<>>
    ELSE <<[isAgent |-> TRUE, agent |-> i, node |-> <<>>]>>
         \o [k \in 1..CountNodes(ags[i].Roots) |->
               [isAgent |-> FALSE, agent |-> i,
                node |-> PreorderPtrs(ags[i].Roots, <<>>, 1)[k]]]
         \o WholeForest(ags, i + 1)

\* what each row of a flat list refers to
RowRefs(flat) ==
    [k \in DOMAIN flat |->
        [isAgent |-> flat[k].isAgent, agent |-> flat[k].agent, node |-> flat[k].node]]

AllFlags(ags, val) ==
    \A a \in DOMAIN ags :
        /\ ags[a].Expanded = val
        /\ \A n \in AllNodes(ags[a].Roots) : n.Expanded = val

RECURSIVE TotalNodes(_)
TotalNodes(ags) ==
    IF ags = <<>> THEN 0 ELSE CountNodes(Head(ags).Roots) + TotalNodes(Tail(ags))

EverythingShown(ags, flat) ==
    /\ AllFlags(ags, TRUE)
    /\ Len(flat) = Len(ags) + TotalNodes(ags)
    /\ RowRefs(flat) = WholeForest(ags, 1)

HeadersOnly(ags, flat) ==
    /\ AllFlags(ags, FALSE)
    /\ Len(flat) = Len(ags)
    /\ \A k \in DOMAIN flat : flat[k].isAgent /\ flat[k].agent = k

\* C31: in every state, ExpandAll leads to a state where every agent header
\* and every node is expanded and the flat list is the whole forest in
\* depth-first pre-order, one row per header and one per node; CollapseAll
\* leads to a state where every flag is false and the flat list holds the
\* agent headers only, one row each.
C31_ExpandAllCollapseAll ==
    /\ ~ENABLED (ExpandAll /\ TreeViewOnly /\ ~EverythingShown(agents', flatNodes'))
    /\ ~ENABLED (CollapseAll /\ TreeViewOnly /\ ~HeadersOnly(agents', flatNodes'))
    /\ ENABLED (ExpandAll /\ TreeViewOnly)
    /\ ENABLED (CollapseAll /\ TreeViewOnly)

\* two agents, a node below another node, everything expanded and shown
C31_Witness ==
    /\ Len(agents) = 2
    /\ EverythingShown(agents, flatNodes)
    /\ \E k \in DOMAIN flatNodes : Len(flatNodes[k].node) >= 2

\* the cursor after a move: one row further unless it is at that end
CursorAfterUp == IF selectedIdx = 0 THEN 0 ELSE selectedIdx - 1
CursorAfterDown ==
    IF Len(flatNodes) = 0 \/ selectedIdx = Len(flatNodes) - 1 THEN selectedIdx
    ELSE selectedIdx + 1

\* C32: in every state, MoveUp moves the cursor up by exactly one row unless
\* it is on the first row, MoveDown moves it down by exactly one row unless
\* it is on the last row or the list is empty, where they leave it as it is
\* (no wraparound); neither changes an Expanded flag, the agent list or the
\* flat list.
C32_MoveByOneRow ==
    /\ ~ENABLED (/\ MoveUp /\ TreeViewOnly
                 /\ ~(/\ selectedIdx' = CursorAfterUp
                      /\ agents' = agents /\ flatNodes' = flatNodes))
    /\ ~ENABLED (/\ MoveDown /\ TreeViewOnly
                 /\ ~(/\ selectedIdx' = CursorAfterDown
                      /\ agents' = agents /\ flatNodes' = flatNodes))
    /\ ENABLED (MoveUp /\ TreeViewOnly)
    /\ ENABLED (MoveDown /\ TreeViewOnly)

\* the cursor has moved down to the last of at least three rows
C32_Witness ==
    /\ Len(flatNodes) >= 3
    /\ selectedIdx = Len(flatNodes) - 1
    /\ CursorAfterDown = selectedIdx
    /\ CursorAfterUp = selectedIdx - 1

\* the rows up to and including the cursor row
RowsToCursor(flat, sel) == SubSeq(flat, 1, sel + 1)

\* after an operation on the row under the cursor: the cursor has the same
\* index, its row refers to the same agent header or node, and the rows
\* before it are the same
CursorStays(flat, sel) ==
    /\ sel = selectedIdx
    /\ selectedIdx < Len(flatNodes) =>
          /\ sel < Len(flat)
          /\ RowRefs(flat)[sel + 1] = RowRefs(flatNodes)[selectedIdx + 1]
          /\ RowsToCursor(flat, sel) = RowsToCursor(flatNodes, selectedIdx)

\* C33: in every state, Toggle, Expand and Collapse leave selectedIdx as it
\* is, and in the rebuilt flat list the row at selectedIdx refers to the same
\* agent header or node as before and all rows before it are unchanged.
C33_CursorStaysOnRow ==
    /\ ~ENABLED (Toggle /\ TreeViewOnly /\ ~CursorStays(flatNodes', selectedIdx'))
    /\ ~ENABLED (Expand /\ TreeViewOnly /\ ~CursorStays(flatNodes', selectedIdx'))
    /\ ~ENABLED (Collapse /\ TreeViewOnly /\ ~CursorStays(flatNodes', selectedIdx'))
    /\ ENABLED (Toggle /\ TreeViewOnly)
    /\ ENABLED (Expand /\ TreeViewOnly)
    /\ ENABLED (Collapse /\ TreeViewOnly)

\* the cursor is on an expanded node with children in the middle of the
\* list: collapsing it removes rows after the cursor
C33_Witness ==
    /\ selectedIdx >= 2
    /\ selectedIdx < Len(flatNodes) - 1
    /\ ~Selected.isAgent
    /\ Len(SelectedNode.Children) > 0
    /\ SelectedNode.Expanded
    /\ ENABLED (Collapse /\ TreeViewOnly /\ Len(flatNodes') < Len(flatNodes))

(***************************************************************************)
(* Properties of the structure detector                                    *)
(***************************************************************************)
\* the string of a scalar value and "" for a value that is none; null has none
ScalarKey(v) == IF IsStr(v) \/ IsNum(v) \/ IsBool(v) THEN toStringKey(v) ELSE <<>>

\* a root value that is a scalar or null: null, "", "0" and the number 0
IsRootValue_ScalarOnly(parentVal) ==
    IsNull(parentVal)
    \/ (IsStr(parentVal) /\ parentVal.str \in {<<>>, <<"0">>})
    \/ (IsNum(parentVal) /\ parentVal.num = 0)

\* the parent value refers to a scalar value of the column idCol
RefersToId(rowMaps, idCol, parentVal) ==
    /\ IsStr(parentVal) \/ IsNum(parentVal) \/ IsBool(parentVal)
    /\ \E i \in DOMAIN rowMaps :
          /\ idCol \in DOMAIN rowMaps[i]
          /\ IsStr(rowMaps[i][idCol]) \/ IsNum(rowMaps[i][idCol]) \/ IsBool(rowMaps[i][idCol])
          /\ ScalarKey(rowMaps[i][idCol]) = ScalarKey(parentVal)

\* the condition C13 states, with the columns of the first row, an absent
\* value read as null and the number 0 read as "0"
StatedSelfReferential(rows) ==
    LET rowMaps == rowMapsOf(rows)
        columns == DOMAIN rowMaps[1]
    IN  \E idCol \in columns, parentCol \in columns :
          /\ idCol # parentCol
          /\ 5 * Cardinality({ i \in DOMAIN rowMaps :
                   \/ IsRootValue_ScalarOnly(RowValue(rowMaps[i], parentCol))
                   \/ RefersToId(rowMaps, idCol, RowValue(rowMaps[i], parentCol)) })
               >= 4 * Len(rowMaps)
          /\ \E i \in DOMAIN rowMaps :
                IsRootValue_ScalarOnly(RowValue(rowMaps[i], parentCol))

\* C13 as stated: given at least two object rows, hasSelfReferentialFields is
\* true exactly when some ordered pair of distinct columns has at least 80%
\* of the rows with a parent value that is null, "", "0" or a scalar value of
\* the id column, and at least one row with a null, "" or "0" parent; a
\* parent value that is no scalar is no valid reference.
C13_SelfReferentialIff ==
    (detPc = "done" /\ Len(rowMapsOf(detRows)) >= 2)
        => detResult = StatedSelfReferential(detRows)

(***************************************************************************)
(* Properties of the results model                                         *)
(***************************************************************************)
\* a results fetch has completed without error and processResults has run
\* (no completion of SpecResults carries an error)
ResultsProcessed == ~rmLoading /\ ~rmErr

\* C12: whenever results have been processed and isTreeData is false, the
\* view mode of the results model is Table, whatever key presses (1, 2, 3,
\* Tab), result arrivals and initial view mode led there.
C12_FlatDataTableOnly ==
    (ResultsProcessed /\ ~rmIsTreeData) => rmViewMode = TableView

\* the commands of the given kinds that are in flight
InFlightOf(kinds) == {msg \in rmInFlight : msg.kind \in kinds}

\* C14: once a status with state Completed or Failed has been received, no
\* further status fetch, results fetch or tick is issued: no step adds a
\* command to those in flight.
C14_NoPollingAfterTerminal ==
    [][Terminal(rmStatus) => (rmIssued' = rmIssued /\ rmInFlight' \subseteq
                                  (rmInFlight \cup {Answered(msg, err) :
                                      msg \in InFlightOf({"execution", "results"}),
                                      err \in BOOLEAN}))]_vars

\* a terminal status arrives after a tick has re-issued both fetches, while
\* the results fetch of that tick is still in flight
C14_Witness ==
    /\ Terminal(rmStatus)
    /\ rmIssued >= 6
    /\ InFlightOf({"results"}) # {}

\* C15: as long as no terminal status has been received the status fetch
\* keeps being re-issued, also after a status completion that failed.  Only
\* the completion of a tick issues a status fetch and only the completion of
\* a status fetch issues a tick, so one of the two has to be in flight.
C15_StatusKeepsPolling ==
    ~Terminal(rmStatus) => InFlightOf({"status", "tick"}) # {}

\* the sequence without its element at position i
Without(seq, i) == SubSeq(seq, 1, i - 1) \o SubSeq(seq, i + 1, Len(seq))

\* the results of the current tab whose answer is no JSON document
MalformedAt == {i \in DOMAIN getCurrentResults(ModelState) :
                    ~getCurrentResults(ModelState)[i].AnswerJSON.ok}

\* the trees and the rows of the other agents are what they are without result i
OthersUnaffected(i) ==
    LET cur == getCurrentResults(ModelState)
    IN  /\ \E keyOrder \in Perms(JsonKeys) :
               Without(rmAgentTrees, i) = buildAgentTrees(Without(cur, i), keyOrder)
        /\ SelectSeq(rmTableRows, LAMBDA row : row.AgentName # cur[i].AgentName)
               = buildTableRows(Without(cur, i))

\* the tree of result i is one leaf with the given label
SingleLeaf(i, label) ==
    /\ Len(rmAgentTrees) = Len(getCurrentResults(ModelState))
    /\ rmAgentTrees[i].NodeCount = 1
    /\ Len(rmAgentTrees[i].Roots) = 1
    /\ rmAgentTrees[i].Roots[1].Children = <<>>
    /\ rmAgentTrees[i].Roots[1].Label = label

\* a text cut to at most 100 characters, with a trailing ellipsis when cut
CutTo100(text) ==
    IF Len(text) <= 100 THEN text ELSE SubSeq(text, 1, 97) \o <<".", ".", ".">>

\* the text with every line feed replaced by a space and every carriage
\* return removed
OnOneLine(text) ==
    SelectSeq([i \in DOMAIN text |-> IF text[i] = "\n" THEN " " ELSE text[i]],
              LAMBDA c : c # "\r")

\* C16 as stated: in the tree view, an agent whose answer is no JSON document
\* has a tree of one leaf labelled with the raw text cut to at most 100
\* characters, NodeCount 1; no model error is set and the trees and rows of
\* the other agents are what they are without this agent.
C16_MalformedLeafRawText ==
    (rmViewMode = TreeView /\ ~rmLoading) =>
        \A i \in MalformedAt :
            /\ SingleLeaf(i, CutTo100(getCurrentResults(ModelState)[i].AnswerJSON.raw))
            /\ ~rmErr
            /\ OthersUnaffected(i)

\* C16: the same, the label being the raw text on one line (line feeds
\* replaced by spaces, carriage returns removed) cut to at most 100 characters.
C16_MalformedLeaf ==
    (rmViewMode = TreeView /\ ~rmLoading) =>
        \A i \in MalformedAt :
            /\ SingleLeaf(i, CutTo100(OnOneLine(
                                 getCurrentResults(ModelState)[i].AnswerJSON.raw)))
            /\ ~rmErr
            /\ OthersUnaffected(i)

\* the tree view shows an agent whose answer is a text of more than 100
\* characters, next to another agent
C16_Witness ==
    /\ rmViewMode = TreeView /\ ~rmLoading
    /\ Len(rmAgentTrees) = 2
    /\ \E i \in MalformedAt :
           Len(getCurrentResults(ModelState)[i].AnswerJSON.raw) > 100

\* the results of the current tab whose answer is a JSON document that is
\* neither an object nor an array
ScalarAt ==
    {i \in DOMAIN getCurrentResults(ModelState) :
        LET answer == getCurrentResults(ModelState)[i].AnswerJSON
        IN  answer.ok /\ ~IsObj(answer.data) /\ ~IsArr(answer.data)}

\* C17: in the tree view, an agent whose answer is valid JSON but a top-level
\* scalar has a tree of a single synthetic node (one root, NodeCount = 1)
\* rather than an empty tree.
C17_ScalarSingleNode ==
    (rmViewMode = TreeView /\ ~rmLoading) =>
        \A i \in ScalarAt :
            /\ Len(rmAgentTrees) = Len(getCurrentResults(ModelState))
            /\ Len(rmAgentTrees[i].Roots) = 1
            /\ rmAgentTrees[i].NodeCount = 1

RECURSIVE SameShape(_, _)
\* two forests are the same but for the order of siblings and the node IDs:
\* the roots can be paired so that paired nodes have the same label, the same
\* depth and children that are the same in this sense (so also the same
\* number of children)
SameShape(a, b) ==
    /\ Len(a) = Len(b)
    /\ \E f \in Perms(DOMAIN a) : \A i \in DOMAIN a :
          /\ a[i].Label = b[f[i]].Label
          /\ a[i].Depth = b[f[i]].Depth
          /\ SameShape(a[i].Children, b[f[i]].Children)

RECURSIVE DepthLabelCount(_, _, _)
\* how many nodes of a forest have the given depth and label
DepthLabelCount(nodes, depth, label) ==
    IF nodes = <<>> THEN 0
    ELSE (IF nodes[1].Depth = depth /\ nodes[1].Label = label THEN 1 ELSE 0)
         + DepthLabelCount(nodes[1].Children, depth, label)
         + DepthLabelCount(Tail(nodes), depth, label)

\* the (depth, label) pairs of two forests are the same, with the same
\* multiplicities
SameDepthLabels(a, b) ==
    \A n \in AllNodes(a) \cup AllNodes(b) :
        DepthLabelCount(a, n.Depth, n.Label) = DepthLabelCount(b, n.Depth, n.Label)

\* C22: the per-agent tree the tree view holds for a result whose answer is a
\* JSON object or array was built by buildTreeNodes under some order of the
\* object keys; a second run on the same value under any order of the keys
\* gives the same node count, the same (depth, label) pairs with the same
\* multiplicities and, node by node, the same number of children.
C22_KeyOrderSameShape ==
    (rmViewMode = TreeView /\ rmCurrentTab = ResultsTab) =>
      LET results == getCurrentResults(ModelState)
      IN  /\ Len(agents) = Len(results)
          /\ \A i \in DOMAIN results :
                (results[i].AnswerJSON.ok
                 /\ (IsObj(results[i].AnswerJSON.data) \/ IsArr(results[i].AnswerJSON.data)))
                => \A keyOrder \in Perms(JsonKeys) :
                      LET second == buildTreeNodes(results[i].AnswerJSON.data, 0, 0, keyOrder)
                      IN  /\ second.count = agents[i].NodeCount
                          /\ CountNodes(second.nodes) = CountNodes(agents[i].Roots)
                          /\ SameDepthLabels(second.nodes, agents[i].Roots)
                          /\ SameShape(second.nodes, agents[i].Roots)

\* the tree view holds the tree of an object with two keys, and the other
\* order of the keys gives its nodes in another order or with other IDs
C22_Witness ==
    /\ rmViewMode = TreeView
    /\ rmCurrentTab = ResultsTab
    /\ \E i \in DOMAIN agents : \E keyOrder \in Perms(JsonKeys) :
          LET results == getCurrentResults(ModelState)
          IN  /\ i \in DOMAIN results
              /\ results[i].AnswerJSON.ok
              /\ agents[i].Roots
                 # buildTreeNodes(results[i].AnswerJSON.data, 0, 0, keyOrder).nodes

\* C29 as stated: for every AgentTree the tree view holds, a per-agent tree
\* or the aggregated one, with the anomalies-only filter or without it,
\* NodeCount (shown as "(N items)") is the number of nodes of its forest.
C29_NodeCountIsForestSize ==
    \A i \in DOMAIN agents : agents[i].NodeCount = CountNodes(agents[i].Roots)

\* the condition of C30 on the results of the current tab: the first answer
\* parses and is (a) an object with an object- or array-valued property, or
\* a non-empty array whose first element is an object (b) with such a
\* property or (c) whose rows pass the self-reference detection
TreeDataOf(results) ==
    /\ Len(results) > 0
    /\ results[1].AnswerJSON.ok
    /\ LET v == results[1].AnswerJSON.data
       IN  \/ IsObj(v) /\ \E k \in DOMAIN v.obj : IsObj(v.obj[k]) \/ IsArr(v.obj[k])
           \/ /\ IsArr(v) /\ Len(v.arr) > 0 /\ IsObj(v.arr[1])
              /\ \/ \E k \in DOMAIN v.arr[1].obj :
                       IsObj(v.arr[1].obj[k]) \/ IsArr(v.arr[1].obj[k])
                 \/ hasSelfReferentialFields(v.arr)

\* results arrive without error and Update processes them
ResultsArrive ==
    \E msg \in rmInFlight :
        /\ msg.kind = "results" /\ msg.served /\ ~msg.err
        /\ rmInFlight' = rmInFlight \ {msg}
        /\ rmResults' = msg.results

\* C30: when results have been processed, isTreeData is decided by the first
\* result of the current tab alone: it is true exactly when that answer
\* parses and is an object with a nested property, or an array whose first
\* element is an object with a nested property or whose rows pass the
\* self-reference detection; the other results have no part in it.
C30_IsTreeDataOfFirstResult ==
    [][ResultsArrive => rmIsTreeData' = TreeDataOf(getCurrentResults(ModelState)')]_vars

\* processed results whose first answer is a list of flat rows that refer
\* to each other: isTreeData is on
C30_Witness ==
    /\ ResultsProcessed
    /\ rmCurrentTab = ResultsTab
    /\ Len(rmResults) = 1
    /\ rmResults[1].AnswerJSON = SelfRefRowsAnswer
    /\ rmIsTreeData

\* C24 as stated: whenever the view mode is Aggregated and the current tab
\* has a result, the tree view holds one expanded header "All Agents (N)",
\* N the number of results of the tab, over the aggregation of the trees of
\* the tab's results as last received (under the model's anomalies filter,
\* for some order of the map iterations), whatever keys (Tab, 1, 2, 3, a)
\* and result arrivals led there.
C24_AggregatedHoldsAggregation ==
    LET results == getCurrentResults(ModelState)
    IN  (rmViewMode = AggregatedView /\ Len(results) >= 1) =>
          /\ Len(agents) = 1
          /\ agents[1].Expanded
          /\ agents[1].AgentName = "All Agents (" \o IntToStr(Len(results)) \o ")"
          /\ \E keyOrder \in Perms(JsonKeys) :
                \E st \in rebuildAggregatedTree(rebuildTreeOfTab(ModelState, keyOrder)) :
                    st.agents[1].Roots = agents[1].Roots

\* C25 as stated: the results the model holds are those of the results fetch
\* issued last among those that have completed: when several results
\* fetches are in flight and complete in any order, the completion of a
\* fetch issued earlier never replaces the results a fetch issued later has
\* delivered (fetches are numbered in the order of their issue).
C25_LatestFetchWins ==
    [][rmShownFetch' >= rmShownFetch]_vars

\* C26 as stated: when polling has stopped on a terminal status (nothing is
\* in flight any more, no fetch has failed), the results shown are complete:
\* they are the results the server held when it reported the terminal state
\* (it adds none afterwards).
C26_FinalResultsComplete ==
    (Terminal(rmStatus) /\ rmInFlight = {} /\ ~rmErr) => rmResults = srvResults

\* C34: the results model runs a single polling chain: in every state at
\* most one command is a pending tick or a status fetch in flight, whatever
\* the order in which ticks, status completions and results completions are
\* delivered.
C34_SinglePollingChain ==
    Cardinality(InFlightOf({"status", "tick"})) <= 1

\* the chain has gone round (the status fetch of a tick is in flight) while
\* two results fetches are still in flight
C34_Witness ==
    /\ \E msg \in InFlightOf({"status"}) : msg.id > 2
    /\ Cardinality(InFlightOf({"results"})) >= 2

(***************************************************************************)
(* Properties of the table and its detail view                             *)
(***************************************************************************)
\* the result of the current tab that the selected row of the table was
\* built from
SelectedRow == rmTableRows[rmTableSelectedIdx + 1]
SelectedResult ==
    LET results == getCurrentResults(ModelState)
    IN  results[CHOOSE i \in DOMAIN results : results[i].AgentName = SelectedRow.AgentName]

\* the element of an array answer that buildTableData flattened into the row
\* with this RowIndex: the object of that rank among the objects of the array
RowElement(data, rowIndex) == SelectSeq(data.arr, IsObj)[rowIndex + 1]

\* Enter in the table view on a row built from an element of an array answer
EnterOnArrayRow ==
    /\ PressEnter
    /\ ~rmShowingDetail
    /\ rmViewMode = TableView
    /\ rmTableSelectedIdx < Len(rmTableRows)
    /\ ~SelectedRow.HasError
    /\ SelectedResult.AnswerJSON.ok
    /\ IsArr(SelectedResult.AnswerJSON.data)
    /\ Len(normalizeToRows(SelectedResult.AnswerJSON.data)) > 0

\* C37 as stated: Enter on a table row of an agent whose answer is a JSON
\* array opens the detail view on the element of the array that was
\* flattened into that row, also when the array holds elements that are no
\* objects next to the objects.
C37_DetailShowsRowElement ==
    [][EnterOnArrayRow =>
         /\ rmShowingDetail'
         /\ rmDetailContent' =
              <<"Agent: ", SelectedRow.AgentName, "\n", "Row ",
                IntToStr(SelectedRow.RowIndex + 1), "\n", "\n">>
              \o MarshalIndent(RowElement(SelectedResult.AnswerJSON.data,
                                          SelectedRow.RowIndex), 0)]_vars

\* a result whose answer parses and gives normalizeToRows no row: an array
\* without objects (of scalars, or empty) or a bare scalar
Rowless(r) ==
    /\ ~r.HasError
    /\ r.AnswerJSON.ok
    /\ normalizeToRows(r.AnswerJSON.data) = <<>>

\* C38 as stated: an agent of the current tab whose answer is valid JSON but
\* an array of scalars, a bare scalar or an empty array has exactly one row
\* in the flat table, and that row has a single column, which holds the raw
\* value.
C38_RowlessAnswerGetsRawValueRow ==
    LET cur == getCurrentResults(ModelState)
    IN  \A i \in DOMAIN cur :
            (rmShownFetch > 0 /\ Rowless(cur[i])) =>
                LET rows == SelectSeq(rmTableRows,
                                      LAMBDA row : row.AgentName = cur[i].AgentName)
                IN  /\ Len(rows) = 1
                    /\ \E col \in DOMAIN rows[1].Data :
                           /\ DOMAIN rows[1].Data = {col}
                           /\ rows[1].Data[col] # <<>>

(***************************************************************************)
(* Properties of the watch command and of the paginated fetch              *)
(***************************************************************************)
\* the loop of runWatch ends in this step
WatchLoopEnds == watchPc = "loop" /\ watchPc' # "loop"

\* the step serves a tick, whose status fetch has this outcome
TickServed == watchTicks' = watchTicks + 1

\* C39: the polling loop of the watch command ends only when a signal is
\* taken from the signal channel, or right after a status fetch that
\* returned the state Completed or Failed, and then the final summary is
\* printed, once in all; a tick whose status fetch fails leaves the loop
\* running, and an ended loop prints nothing more.
C39_WatchEndsOnSignalOrCompletion ==
    [][/\ WatchLoopEnds =>
            \/ /\ sigChan = 1 /\ sigChan' = 0
               /\ ~TickServed
               /\ watchSummaries' = watchSummaries
            \/ /\ TickServed
               /\ Terminal(watchFetched')
               /\ watchSummaries = 0 /\ watchSummaries' = 1
       /\ (TickServed /\ watchFetched' = "error") =>
              watchPc' = "loop" /\ watchSummaries' = watchSummaries
       /\ (TickServed /\ Terminal(watchFetched')) => WatchLoopEnds
       /\ ~WatchLoopEnds => watchSummaries' = watchSummaries
       /\ watchPc # "loop" => watchPc' = watchPc]_vars

\* the loop has ended with the summary after a tick whose fetch failed and
\* a later one that saw the execution running
C39_Witness ==
    /\ watchPc = "done"
    /\ watchSummaries = 1
    /\ watchTicks >= 3
    /\ watchDrawn >= 2
    /\ watchFetched = "Failed"

\* C40: against a server that holds N results and serves them in pages of
\* the requested size with TotalCount = N, GetAllExecutionResults returns
\* after finitely many page requests (at most N / pageSize + 1); when no
\* request fails it returns every result once, in the order of the pages,
\* and when a request fails it returns the error and no results.
C40_AllPagesOnce ==
    /\ <>(pagePc = "returned")
    /\ [](pageRequests <= pageTotal \div pageSize + 1)
    /\ [](pagePc = "returned" =>
              IF pageReturn.err THEN pageReturn.results = <<>>
              ELSE pageReturn.results = [i \in 1..pageTotal |-> i])

\* three pages have been fetched and the results returned
C40_Witness ==
    /\ pagePc = "returned"
    /\ ~pageReturn.err
    /\ pageRequests = 3
    /\ Len(pageReturn.results) > 2 * pageSize

=============================================================================
